---- MODULE Spec2Model ----
(***************************************************************************)
(* A model of the Ada daemon's session engine (src-tauri/src/daemon):      *)
(* the session registry and its PTY reader threads (session.rs), the       *)
(* per-session persistence (persistence.rs, util.rs), the event bus and    *)
(* the hook endpoint (notification.rs).                                    *)
(*                                                                         *)
(* Threads: one per in-flight session-manager call (the IPC handlers of    *)
(* different connections run in parallel), one per spawned PTY reader.     *)
(* A step is what a thread does between two points where another thread    *)
(* can observe or interfere: the registry lock, the persistence mutex,     *)
(* the shutdown flag, the bus and the file system.                         *)
(***************************************************************************)
EXTENDS Integers, Sequences, FiniteSets, TLC

\* ------------------------------------------------------------- bounds
MaxSpawns == 2      \* PTYs (and reader threads) spawned in one daemon run
MaxReads == 1       \* successful reads of one reader thread
MaxCalls == 2       \* session-manager calls issued in one daemon run
MaxHookCalls == 2   \* calls of the hook endpoint

\* ---------------------------------------------------- program constants
MAX_SCROLLBACK_BYTES == 5242880
KeepAfterRotate == 4194304
FlushEveryBytes == 4096
ReadBufBytes == 4096

TermIds == {"t1"}
Callers == {"a", "b"}
ChunkLens == {1, ReadBufBytes}

\* ------------------------------------------------------------ variables
VARIABLES
    sessions,   \* the registry: terminal id -> SessionEntry
    readers,    \* the pty-reader threads, by PTY incarnation (1, 2, ...)
    shutdown,   \* the Arc<AtomicBool> handed to reader k
    pers,       \* the SessionPersistence objects, by allocation order
    inodes,     \* the content of every scrollback file ever created
    disk,       \* the sessions directory: terminal id -> its directory
    bus,        \* every event sent on the broadcast channel, in send order
    ops,        \* the in-flight session-manager call of each caller
    calls,      \* calls issued so far
    boot,       \* load_from_disk's position
    hooks,      \* the calls of the hook endpoint
    mirror,     \* the task that copies AgentStatus events into the registry
    app,        \* the GUI process's AppState: terminals, PTY handles, buffers
    limit,      \* the number of session-manager calls the run issues
    crashes,    \* the times the daemon process was killed and started again
    saves,      \* one session directory's meta.json / meta.tmp and the saves in flight
    conn,       \* one IPC connection: the read loop, the out queue, the write task
    subs,       \* the event forwarders of the IPC connections, by connection
    lk,         \* the registry lock: its holders and each call's position around it
    cfg,        \* the shell override: in memory, in runtime.json, and the calls that set it
    halt,       \* a shutdown request: the connection's out channel, its socket, the exit task
    handle,     \* one PtyHandle: its writer and master mutexes, the bytes written, the calls on it
    disc,       \* daemon start: the listener, the port and pid files, what a client read
    term,       \* write_to_session and resize_session: registry, PTYs and the calls in flight
    dims,       \* the size of one session: in the entry, in persistence.meta, in meta.json, of its PTY
    penv,       \* the environment of the last PTY spawned and the inputs it was built from
    ord         \* the registry lock and one persistence mutex: holders and the threads' positions

vars == <<sessions, readers, shutdown, pers, inodes, disk, bus, ops, calls, boot, hooks,
          mirror, app, limit, crashes, saves, conn, subs, lk, cfg, halt, handle, disc, term, dims, penv, ord>>

\* the daemon's registry, threads, disk and channel
daemon == <<sessions, readers, shutdown, pers, inodes, disk, bus, ops, calls, boot,
            hooks, mirror, limit, crashes>>

\* the parts that only their own subsystem touches
more == <<subs, lk, cfg, halt, handle, disc, term, dims, penv, ord>>

\* every variable but the one named
besideSubs == <<daemon, app, saves, conn, lk, cfg, halt, handle, disc, term, dims, penv, ord>>

besideLk == <<daemon, app, saves, conn, subs, cfg, halt, handle, disc, term, dims, penv, ord>>

besideCfg == <<daemon, app, saves, conn, subs, lk, halt, handle, disc, term, dims, penv, ord>>

besideHalt == <<daemon, app, saves, conn, subs, lk, cfg, handle, disc, term, dims, penv, ord>>

besideHandle == <<daemon, app, saves, conn, subs, lk, cfg, halt, disc, term, dims, penv, ord>>

besideDisc == <<daemon, app, saves, conn, subs, lk, cfg, halt, handle, term, dims, penv, ord>>

besideTerm == <<daemon, app, saves, conn, subs, lk, cfg, halt, handle, disc, dims, penv, ord>>

besideDims == <<daemon, app, saves, conn, subs, lk, cfg, halt, handle, disc, term, penv, ord>>

besidePenv == <<daemon, app, saves, conn, subs, lk, cfg, halt, handle, disc, term, dims, ord>>

besideOrd == <<daemon, app, saves, conn, subs, lk, cfg, halt, handle, disc, term, dims, penv>>

\* the state of the parts that the session manager, the reader threads and
\* the hook endpoint do not touch
aux == <<mirror, app, limit, crashes, saves, conn, more>>

\* ------------------------------------------------- scrollback file bytes
\* A file's content is a sequence of runs [src, seq, len]: len bytes of the
\* seq-th read of PTY src (src = 0: NUL bytes of a hole).

RECURSIVE RunsLen(_)
RunsLen(rs) == IF rs = <<>> THEN 0 ELSE Head(rs).len + RunsLen(Tail(rs))

RECURSIVE TakeBytes(_, _)
TakeBytes(rs, n) ==
    IF n = 0 \/ rs = <<>> THEN <<>>
    ELSE IF Head(rs).len <= n
         THEN <<Head(rs)>> \o TakeBytes(Tail(rs), n - Head(rs).len)
         ELSE <<[Head(rs) EXCEPT !.len = n]>>

RECURSIVE DropBytes(_, _)
DropBytes(rs, n) ==
    IF n = 0 \/ rs = <<>> THEN rs
    ELSE IF Head(rs).len <= n
         THEN DropBytes(Tail(rs), n - Head(rs).len)
         ELSE <<[Head(rs) EXCEPT !.len = @ - n]>> \o Tail(rs)

Hole(n) == [src |-> 0, seq |-> 0, len |-> n]

PadTo(rs, n) == IF RunsLen(rs) < n THEN rs \o <<Hole(n - RunsLen(rs))>> ELSE rs

\* write(2) of data at offset off of a file opened without O_APPEND
WriteAt(file, off, data) ==
    IF data = <<>> THEN file
    ELSE TakeBytes(PadTo(file, off), off) \o data
            \o DropBytes(file, off + RunsLen(data))

Chunk(k, n, len) == [src |-> k, seq |-> n, len |-> len]

\* ------------------------------------------------------------ persistence
\* A SessionPersistence P: dir (the terminal id naming its directory), ino /
\* off / append (the open scrollback file, its write offset and O_APPEND), buf
\* (the BufWriter's pending bytes), bytes_written, bytes_since_flush, meta.
\* A reader's chunk is at most ReadBufBytes and the buffer is flushed as soon
\* as FlushEveryBytes are pending, so BufWriter's own capacity never decides
\* when bytes reach the file.
\* F is the file store (inodes), D the session's directory on disk:
\* exists, meta / tmp (meta.json and its temporary file: <<>> or <<content>>),
\* scroll (the inode scrollback.bin names, 0: no such file).

SessionMeta(client, ended) ==
    [client_id |-> client, ended_at |-> ended, scrollback_bytes |-> 0]

NoDir == [exists |-> FALSE, meta |-> <<>>, tmp |-> <<>>, scroll |-> 0]

\* BufWriter::flush / BufWriter's drop: the pending bytes go to the file
FlushFile(P, F) ==
    IF P.buf = <<>> THEN F
    ELSE [F EXCEPT ![P.ino] = IF P.append THEN @ \o P.buf
                                ELSE WriteAt(@, P.off, P.buf)]

FlushPers(P) == [P EXCEPT !.buf = <<>>, !.off = @ + RunsLen(P.buf)]

\* save_meta: util::atomic_write of meta.json (a temporary file is written and
\* renamed over it); it fails in a directory that does not exist
SaveMeta(P, D) ==
    IF D.exists THEN [D EXCEPT !.meta = <<P.meta>>, !.tmp = <<>>] ELSE D

\* open_scrollback: the file is created when the path names none
OpenScrollback(D, F, truncate) ==
    IF D.scroll = 0
    THEN [D |-> [D EXCEPT !.scroll = Len(F) + 1], F |-> Append(F, <<>>),
          ino |-> Len(F) + 1]
    ELSE [D |-> D, ino |-> D.scroll,
          F |-> IF truncate THEN [F EXCEPT ![D.scroll] = <<>>] ELSE F]

\* SessionPersistence::new
PersistenceNew(tid, meta, F, D) ==
    LET o == OpenScrollback([D EXCEPT !.exists = TRUE], F, TRUE)
        P == [dir |-> tid, ino |-> o.ino, off |-> 0, append |-> FALSE,
              buf |-> <<>>, bytes_written |-> 0, bytes_since_flush |-> 0,
              meta |-> meta]
    IN [P |-> P, F |-> o.F, D |-> SaveMeta(P, o.D)]

\* SessionPersistence::open_existing
OpenExisting(tid, meta, F, D) ==
    LET o == OpenScrollback([D EXCEPT !.exists = TRUE], F, FALSE)
        P == [dir |-> tid, ino |-> o.ino, off |-> 0, append |-> TRUE,
              buf |-> <<>>, bytes_written |-> meta.scrollback_bytes,
              bytes_since_flush |-> 0, meta |-> meta]
    IN [P |-> P, F |-> o.F, D |-> SaveMeta(P, o.D)]

\* SessionPersistence::mark_ended
MarkEnded(P, F, D) ==
    LET P1 == [P EXCEPT !.meta.ended_at = TRUE]
    IN [P |-> FlushPers(P1), F |-> FlushFile(P1, F), D |-> SaveMeta(P1, D)]

\* SessionPersistence::reset (the directory exists): the file is truncated,
\* then the assignment drops the old BufWriter, which flushes what it still
\* holds through the old descriptor.
PersistenceReset(P, meta, F, D) ==
    LET o == OpenScrollback(D, F, TRUE)
        P1 == [P EXCEPT !.ino = o.ino, !.off = 0, !.append = FALSE,
                        !.buf = <<>>, !.bytes_written = 0,
                        !.bytes_since_flush = 0, !.meta = meta]
    IN [P |-> P1, F |-> FlushFile(P, o.F), D |-> SaveMeta(P1, o.D)]

\* SessionPersistence::rotate_scrollback (scrollback.bin exists)
RotateScrollback(P, F, D) ==
    LET F1 == FlushFile(P, F)
        content == F1[D.scroll]
        keep_from == IF RunsLen(content) > KeepAfterRotate
                     THEN RunsLen(content) - KeepAfterRotate ELSE 0
        truncated == DropBytes(content, keep_from)
    IN [P |-> [P EXCEPT !.ino = D.scroll, !.off = RunsLen(truncated),
                        !.append = FALSE, !.buf = <<>>,
                        !.bytes_written = RunsLen(truncated)],
        F |-> [F1 EXCEPT ![D.scroll] = truncated]]

\* SessionPersistence::write_output: the rotation, the buffered write, the
\* counters and, once FlushEveryBytes are pending, the flush and save_meta;
\* bytes_since_flush is reset when save_meta succeeds. A rotation that cannot
\* read scrollback.bin returns before anything is written.
WriteOutput(P, F, D, data) ==
    LET rot == P.bytes_written + data.len > MAX_SCROLLBACK_BYTES
        r == IF rot /\ D.scroll # 0 THEN RotateScrollback(P, F, D)
             ELSE [P |-> P, F |-> F]
        P1 == [r.P EXCEPT !.buf = @ \o <<data>>,
                          !.bytes_written = @ + data.len,
                          !.bytes_since_flush = @ + data.len,
                          !.meta.scrollback_bytes = r.P.bytes_written + data.len]
        full == P1.bytes_since_flush >= FlushEveryBytes
        P2 == FlushPers(P1)
    IN IF rot /\ D.scroll = 0
       THEN [P |-> P, F |-> F, D |-> D]
       ELSE IF ~full
       THEN [P |-> P1, F |-> r.F, D |-> D]
       ELSE [P |-> IF D.exists THEN [P2 EXCEPT !.bytes_since_flush = 0] ELSE P2,
             F |-> FlushFile(P1, r.F),
             D |-> SaveMeta(P2, D)]

\* SessionPersistence::read_scrollback: the bytes the path names, none when
\* the file cannot be read
ReadScrollback(F, D) == IF D.exists /\ D.scroll # 0 THEN F[D.scroll] ELSE <<>>

\* --------------------------------------------------------------- records
\* A SessionEntry: pty / reader_handle name the PTY incarnation held (0: None),
\* shutdown names the reader whose flag the entry holds (0: a flag no reader
\* shares), persistence the SessionPersistence; inc is the incarnation the last
\* successful spawn for this entry created.
NoEntry ==
    [status |-> "none", pty |-> 0, persistence |-> 0, shutdown |-> 0,
     reader_handle |-> 0, client_id |-> "", agent_status |-> "idle", inc |-> 0]

IdleOp ==
    [op |-> "none", pc |-> "idle", tid |-> "", p |-> 0, k |-> 0,
     ent |-> NoEntry, client |-> "", result |-> ""]

NoChunk == Chunk(0, 0, 0)

Event(type, tid, status, src, seq, len, event) ==
    [type |-> type, terminal_id |-> tid, status |-> status, src |-> src,
     seq |-> seq, len |-> len, event |-> event]

\* DaemonEvent::TerminalStatus; by: the reader thread that sent it, 0 for a
\* session-manager call
TerminalStatus(tid, status, by) == Event("terminal_status", tid, status, by, 0, 0, "")

\* DaemonEvent::TerminalOutput carrying one chunk
TerminalOutput(tid, data) ==
    Event("terminal_output", tid, "", data.src, data.seq, data.len, "")

Put(S, t, e) == [x \in DOMAIN S \cup {t} |-> IF x = t THEN e ELSE S[x]]

\* a removal that leaves the entry in the registry
RemoveKeeps(S, t) == S

Remove(S, t) == [x \in DOMAIN S \ {t} |-> S[x]]

Serving == boot.todo = {} /\ boot.pc = "scan"

\* An Arc<Mutex<SessionPersistence>> is dropped with its last holder: an
\* entry, a reader thread that has not ended, a call that still runs, the
\* recovery loop. Its BufWriter then flushes what it holds.
Referenced(p, S, R, O, B) ==
    \/ \E t \in DOMAIN S : S[t].persistence = p
    \/ \E k \in 1..Len(R) : R[k].pers = p /\ R[k].pc # "done"
    \/ \E c \in Callers : O[c].pc \notin {"idle", "done"}
                          /\ (O[c].p = p \/ O[c].ent.persistence = p)
    \/ B.pc = "insert" /\ B.p = p

RECURSIVE DropFrom(_, _, _, _, _, _, _)
DropFrom(i, PS, F, S, R, O, B) ==
    IF i > Len(PS) THEN [pers |-> PS, inodes |-> F]
    ELSE IF Referenced(i, S, R, O, B) \/ PS[i].buf = <<>>
         THEN DropFrom(i + 1, PS, F, S, R, O, B)
         ELSE DropFrom(i + 1, [PS EXCEPT ![i] = FlushPers(@)],
                       FlushFile(PS[i], F), S, R, O, B)

DropUnreferenced(PS, F, S, R, O, B) == DropFrom(1, PS, F, S, R, O, B)

\* ------------------------------------------------------------------ Init
TermIndex ==
    CHOOSE f \in [TermIds -> 1..Cardinality(TermIds)] :
        \A a, b \in TermIds : a # b => f[a] # f[b]

\* What a previous run can have left of a session: nothing, a directory whose
\* meta.json cannot be loaded, a session that had not ended, one that had.
InitDirs(t) ==
    {NoDir} \cup
    {[exists |-> TRUE, meta |-> m, tmp |-> <<>>, scroll |-> TermIndex[t]] :
        m \in {<<>>, <<SessionMeta("c1", FALSE)>>, <<SessionMeta("c1", TRUE)>>}}

InitHooks == [h \in 1..MaxHookCalls |-> [pc |-> "none", event |-> "", terminal_id |-> "", response |-> ""]]

\* the SessionPersistence objects that save meta.json into one directory
Savers == {1, 2}

\* A directory with no meta.json and no temporary file, no save in flight.
\* tmp / meta: the file each name refers to (0: no such name); files: the
\* content of every file, a sequence of the blocks written; procs: each
\* object's position in atomic_write, the file it has open, its saves so far.
NoSaves ==
    [tmp |-> 0, meta |-> 0, files |-> <<>>,
     procs |-> [i \in Savers |-> [pc |-> "idle", fd |-> 0, n |-> 0]]]

\* An accepted connection: no line read yet, the out queue empty, the write
\* task running. cur: the request being handled (<<>>: none); handled: the
\* requests whose handling is over, in order; out: every line sent into the
\* out channel, in order; written: how many of them the write task has
\* written; open: the channel's receiver exists; eof: the read loop is over.
Accepted ==
    [lines |-> 0, cur |-> <<>>, handled |-> <<>>, out |-> <<>>, written |-> 0,
     events |-> 0, open |-> TRUE, eof |-> FALSE]

\* AppState::new: no terminal, no PTY handle, no output buffer, the project
\* without main terminal; last: the command that returned last
InitApp ==
    [terminals |-> <<>>, pty_handles |-> {}, output_buffers |-> <<>>,
     main_terminal_id |-> 0, spawned |-> 0, calls |-> 0,
     last |-> [cmd |-> "", id |-> 0, result |-> ""]]

\* The registry lock and the calls around it. writer / readers: the callers
\* holding the RwLock's write guard / a read guard; reg: the registered ids,
\* each with whether its entry holds a PTY; th: each caller's call (pc 0: none
\* in flight; inio: inside the I/O its step names); n: calls issued.
LockIds == {"t1", "t2"}

NoCall == [op |-> "", tid |-> "", pc |-> 0, inio |-> FALSE, result |-> ""]

\* the registry lock before load_from_disk has inserted anything
NoLocks ==
    [writer |-> "", readers |-> {}, reg |-> [t \in {} |-> TRUE], n |-> 0,
     th |-> [c \in Callers |-> NoCall]]

\* The shell override of a daemon started without runtime.json.
\* shell_override: the value the session manager reads at spawn; runtime:
\* RuntimeConfig.shell_override; file: what runtime.json holds ("absent": no
\* file); "none" stands for None. th: each caller's set_shell_override in
\* flight; last: the call that returned last (saved: its save succeeded);
\* got: what the last get_runtime_config returned; spawned_with: the override
\* the last spawn_pty read; n: calls issued; restarts: daemon restarts.
NoOverride ==
    [shell_override |-> "none", runtime |-> "none", file |-> "absent",
     th |-> [c \in Callers |-> [pc |-> "idle", shell |-> "none"]],
     last |-> [shell |-> "none", result |-> "", saved |-> FALSE],
     got |-> "", spawned_with |-> "", n |-> 0, restarts |-> 0]

\* A connection on which no shutdown request has been read. pc: the read
\* loop ("idle", "respond": handle_request has returned, "done"); out: the
\* lines sent into the out channel; written: how many of them the write task
\* has written; sock: lines in the socket's send buffer the peer has not
\* read; timer: the exit task ("off", "sleeping"); exited: process::exit ran.
NoHalt ==
    [pc |-> "idle", out |-> <<>>, written |-> 0, sock |-> 0,
     timer |-> "off", exited |-> FALSE]

\* A PtyHandle no call has used. writer / master: the callers inside each
\* mutex; tape: the bytes the PTY has received, each named by the call that
\* wrote it; size: the last size set; th: each caller's call (op, pc, id, the
\* bytes left to write, the size to set); n: calls issued; overlapped: a
\* resize ran while a write held the writer mutex.
NoHandle ==
    [writer |-> {}, master |-> {}, tape |-> <<>>, size |-> 0,
     th |-> [c \in Callers |-> [op |-> "", pc |-> "idle", id |-> 0, left |-> 0, size |-> 0]],
     n |-> 0, overlapped |-> FALSE]

\* A daemon process at the head of serve_ipc. pc: its position; bound: the
\* listener is bound; port / pid: the content of the two files ("absent",
\* "old": a previous run's, "empty": created or truncated and nothing
\* written, "new": this run's); pidtmp: pid.tmp exists; seen_port /
\* seen_pid: what a client read last ("": nothing yet); connected: the
\* client's connect to the port it read succeeded ("": not tried).
NoDisc ==
    [pc |-> "prev", bound |-> FALSE, port |-> "absent", pid |-> "absent",
     pidtmp |-> FALSE, seen_port |-> "", seen_pid |-> "", connected |-> ""]

\* The registry before load_from_disk, as write_to_session and
\* resize_session see it. reg: terminal id -> [pty (the PTY incarnation held,
\* 0: None), cols]; meta: terminal id -> cols of persistence.meta; spawned:
\* PTYs spawned; tape: the writes the PTYs received, <<call, pty>>; sized:
\* the resizes they received, <<call, pty, cols>>; th: each caller's call
\* (op, tid, cols, id, pc, h: the handle cloned, result); n: calls issued;
\* edits: stop / restart / close calls made.
NoTermCall ==
    [op |-> "", tid |-> "", cols |-> 0, id |-> 0, pc |-> "idle", h |-> 0, result |-> ""]

NoTerm ==
    [reg |-> [t \in {} |-> [pty |-> 0, cols |-> 0]],
     meta |-> [t \in {} |-> 0], spawned |-> 0, tape |-> <<>>, sized |-> <<>>,
     th |-> [c \in Callers |-> NoTermCall], n |-> 0, edits |-> 0]

\* the cols a session is created with
InitialCols == 80

\* The size of a running session created with InitialCols. entry: entry.cols;
\* mem: persistence.meta.cols; file: cols in meta.json; pty: the size of the
\* session's PTY; th: each caller's resize_session (pc, cols); last: the
\* cols of the resize_session that returned ok last (0: none); n: calls
\* issued; crashes: daemon kills.
NoDims ==
    [entry |-> InitialCols, mem |-> InitialCols, file |-> InitialCols,
     pty |-> InitialCols,
     th |-> [c \in Callers |-> [pc |-> "idle", cols |-> 0]],
     last |-> 0, n |-> 0, crashes |-> 0]

\* No PTY has been spawned. inherited: the daemon's own environment; shell:
\* ShellConfig.name; command_env: terminal.command.env; built: the map
\* build_terminal_env returned; child: the environment the child gets.
NoEnv ==
    [inherited |-> <<>>, shell |-> "", command_env |-> <<>>, built |-> <<>>,
     child |-> <<>>]

\* The threads that take the manager's locks: the IPC callers and one
\* reader thread
Threads == Callers \cup {"reader"}

\* No lock is held. w: the holder of the registry's write guard; r: the
\* holders of read guards; p: the holder of the session's persistence
\* mutex; th: each thread's operation and the index of its next step (0: no
\* operation in flight); n: operations started.
NoOrder ==
    [w |-> "", r |-> {}, p |-> "", th |-> [t \in Threads |-> [op |-> "", pc |-> 0]],
     n |-> 0]

\* no IPC connection has subscribed to the bus
NoSubs == <<>>

InitMore ==
    /\ subs = NoSubs
    /\ lk = NoLocks
    /\ cfg = NoOverride
    /\ halt = NoHalt
    /\ handle = NoHandle
    /\ disc = NoDisc
    /\ term = NoTerm
    /\ dims = NoDims
    /\ penv = NoEnv
    /\ ord = NoOrder

\* the task that mirrors AgentStatus events, before it is spawned
NoMirror == [pc |-> "off", pos |-> 0, start |-> 0]

Init ==
    /\ sessions = [t \in {} |-> NoEntry]
    /\ readers = <<>>
    /\ shutdown = <<>>
    /\ pers = <<>>
    /\ inodes = [i \in 1..Cardinality(TermIds) |-> <<>>]
    /\ disk \in {d \in [TermIds -> UNION {InitDirs(t) : t \in TermIds}] :
                    \A t \in TermIds : d[t] \in InitDirs(t)}
    /\ bus = <<>>
    /\ ops = [c \in Callers |-> IdleOp]
    /\ calls = 0
    /\ boot = [todo |-> {t \in TermIds : disk[t].exists}, pc |-> "scan",
               tid |-> "", p |-> 0, k |-> 0]
    /\ hooks = InitHooks
    /\ mirror = NoMirror
    /\ app = InitApp
    /\ limit = MaxCalls
    /\ crashes = 0
    /\ saves = NoSaves
    /\ conn = Accepted
    /\ InitMore

\* ------------------------------------------------------------- spawn_pty
\* A successful spawn_pty starts reader thread k = Len(readers) + 1 with the
\* terminal id, the persistence and the shutdown flag it was given. The
\* thread is shown from its first read on: a flag found set at a loop head
\* ends the thread as a read that returns EOF or an error does, and a read
\* may end so at any time, so the flag decides only whether another chunk can
\* be read after one has been handled (see ReaderEmit).
Reader(tid, p) == [pc |-> "read", tid |-> tid, pers |-> p, data |-> NoChunk, n |-> 0]

CanSpawn == Len(readers) < MaxSpawns

\* --------------------------------------------- load_from_disk (recovery)
\* an entry whose status is running whether or not a PTY was spawned
RecoveredRunning(meta, p, k) ==
    [status |-> "running", pty |-> k,
     persistence |-> p, shutdown |-> k, reader_handle |-> k,
     client_id |-> meta.client_id, agent_status |-> "idle", inc |-> k]

\* the SessionEntry that load_from_disk builds; k: the PTY spawned, 0 for none
Recovered(meta, p, k) ==
    [status |-> IF k = 0 THEN "stopped" ELSE "running", pty |-> k,
     persistence |-> p, shutdown |-> k, reader_handle |-> k,
     client_id |-> meta.client_id, agent_status |-> "idle", inc |-> k]

\* a directory whose meta.json does not load is skipped
LoadSkip(t) ==
    /\ boot.pc = "scan" /\ t \in boot.todo
    /\ disk[t].meta = <<>>
    /\ boot' = [boot EXCEPT !.todo = @ \ {t}]
    /\ UNCHANGED <<sessions, readers, shutdown, pers, inodes, disk, bus, ops, calls, hooks, aux>>

\* open_existing; an ended session, or one whose spawn_pty fails, is installed
\* stopped
LoadStopped(t) ==
    /\ boot.pc = "scan" /\ t \in boot.todo
    /\ disk[t].meta # <<>>
    /\ LET meta == disk[t].meta[1]
           n == OpenExisting(t, meta, inodes, disk[t])
       IN /\ pers' = Append(pers, n.P)
          /\ inodes' = n.F
          /\ disk' = [disk EXCEPT ![t] = n.D]
          /\ sessions' = Put(sessions, t, Recovered(meta, Len(pers) + 1, 0))
    /\ boot' = [boot EXCEPT !.todo = @ \ {t}]
    /\ UNCHANGED <<readers, shutdown, bus, ops, calls, hooks, aux>>

\* open_existing and a successful spawn_pty of a session that had not ended
LoadSpawn(t) ==
    /\ boot.pc = "scan" /\ t \in boot.todo
    /\ disk[t].meta # <<>> /\ ~disk[t].meta[1].ended_at
    /\ CanSpawn
    /\ LET n == OpenExisting(t, disk[t].meta[1], inodes, disk[t])
       IN /\ pers' = Append(pers, n.P)
          /\ inodes' = n.F
          /\ disk' = [disk EXCEPT ![t] = n.D]
    /\ readers' = Append(readers, Reader(t, Len(pers) + 1))
    /\ shutdown' = Append(shutdown, FALSE)
    /\ boot' = [boot EXCEPT !.pc = "insert", !.tid = t, !.p = Len(pers) + 1,
                            !.k = Len(readers) + 1]
    /\ UNCHANGED <<sessions, bus, ops, calls, hooks, aux>>

\* the entry of the respawned session is inserted
LoadInsert ==
    /\ boot.pc = "insert"
    /\ sessions' = Put(sessions, boot.tid,
                       Recovered(pers[boot.p].meta, boot.p, boot.k))
    /\ boot' = [boot EXCEPT !.pc = "scan", !.todo = @ \ {boot.tid}, !.tid = "",
                            !.p = 0, !.k = 0]
    /\ UNCHANGED <<readers, shutdown, pers, inodes, disk, bus, ops, calls, hooks, aux>>

\* --------------------------------------------------------- create_session
CanCall(c) == Serving /\ ops[c].pc \in {"idle", "done"} /\ calls < limit

Call(op, t) == [IdleOp EXCEPT !.op = op, !.tid = t]

Done(op, t, result) == [Call(op, t) EXCEPT !.pc = "done", !.result = result]

\* the working directory does not exist
CreateInvalid(c, t) ==
    /\ CanCall(c)
    /\ calls' = calls + 1
    /\ ops' = [ops EXCEPT ![c] = Done("create", t, "invalid_request")]
    /\ UNCHANGED <<sessions, readers, shutdown, pers, inodes, disk, bus, boot, hooks, aux>>

\* SessionPersistence::new, then spawn_pty fails: the error is returned
CreateSpawnFails(c, t) ==
    /\ CanCall(c)
    /\ calls' = calls + 1
    /\ LET n == PersistenceNew(t, SessionMeta("c1", FALSE), inodes, disk[t])
       IN /\ pers' = Append(pers, n.P)
          /\ inodes' = n.F
          /\ disk' = [disk EXCEPT ![t] = n.D]
    /\ ops' = [ops EXCEPT ![c] = Done("create", t, "terminal_error")]
    /\ UNCHANGED <<sessions, readers, shutdown, bus, boot, hooks, aux>>

\* SessionPersistence::new, then spawn_pty succeeds: the reader thread runs
\* from here on
CreateSession(c, t) ==
    /\ CanCall(c)
    /\ CanSpawn
    /\ calls' = calls + 1
    /\ LET n == PersistenceNew(t, SessionMeta("c1", FALSE), inodes, disk[t])
       IN /\ pers' = Append(pers, n.P)
          /\ inodes' = n.F
          /\ disk' = [disk EXCEPT ![t] = n.D]
    /\ readers' = Append(readers, Reader(t, Len(pers) + 1))
    /\ shutdown' = Append(shutdown, FALSE)
    /\ ops' = [ops EXCEPT ![c] = [Call("create", t) EXCEPT !.pc = "insert",
                                    !.p = Len(pers) + 1, !.k = Len(readers) + 1]]
    /\ UNCHANGED <<sessions, bus, boot, hooks, aux>>

\* sessions.write().insert(id, entry): an entry already there is replaced
\* and dropped
CreateInsert(c) ==
    /\ ops[c].op = "create" /\ ops[c].pc = "insert"
    /\ sessions' = Put(sessions, ops[c].tid,
            [status |-> "running", pty |-> ops[c].k, persistence |-> ops[c].p,
             shutdown |-> ops[c].k, reader_handle |-> ops[c].k,
             client_id |-> "c1", agent_status |-> "idle", inc |-> ops[c].k])
    /\ ops' = [ops EXCEPT ![c] = [Call("create", ops[c].tid) EXCEPT !.pc = "emit"]]
    /\ UNCHANGED <<readers, boot>>
    /\ LET g == DropUnreferenced(pers, inodes, sessions', readers', ops', boot')
       IN pers' = g.pers /\ inodes' = g.inodes
    /\ UNCHANGED <<shutdown, disk, bus, calls, hooks, aux>>

\* emit_status of the local terminal (running), then Ok
CreateEmit(c) ==
    /\ ops[c].op = "create" /\ ops[c].pc = "emit"
    /\ bus' = Append(bus, TerminalStatus(ops[c].tid, "running", 0))
    /\ ops' = [ops EXCEPT ![c] = Done("create", ops[c].tid, "ok")]
    /\ UNCHANGED <<sessions, readers, shutdown, pers, inodes, disk, calls, boot, hooks, aux>>

\* ---------------------------------------------------------- close_session
\* shutdown.store(true) on the flag an entry holds
Signal(f) == IF f = 0 THEN shutdown ELSE [shutdown EXCEPT ![f] = TRUE]

\* no entry: TerminalNotFound
CloseNotFound(c, t) ==
    /\ CanCall(c)
    /\ t \notin DOMAIN sessions
    /\ calls' = calls + 1
    /\ ops' = [ops EXCEPT ![c] = Done("close", t, "terminal_not_found")]
    /\ UNCHANGED <<sessions, readers, shutdown, pers, inodes, disk, bus, boot, hooks, aux>>

\* the entry is removed under the write lock
CloseSession(c, t) ==
    /\ CanCall(c)
    /\ t \in DOMAIN sessions
    /\ calls' = calls + 1
    /\ sessions' = Remove(sessions, t)
    /\ ops' = [ops EXCEPT ![c] = [Call("close", t) EXCEPT !.pc = "mark",
                                                           !.ent = sessions[t]]]
    /\ UNCHANGED <<readers, shutdown, pers, inodes, disk, bus, boot, hooks, aux>>

\* The reader is signalled, its handle dropped, the persistence marked
\* ended; then remove_dir_all unlinks the entries of the directory.
CloseMark(c) ==
    /\ ops[c].op = "close" /\ ops[c].pc = "mark"
    /\ shutdown' = Signal(ops[c].ent.shutdown)
    /\ LET p == ops[c].ent.persistence
           d == pers[p].dir
           m == MarkEnded(pers[p], inodes, disk[d])
           D1 == [disk EXCEPT ![d] = m.D]
       IN /\ pers' = [pers EXCEPT ![p] = m.P]
          /\ inodes' = m.F
          /\ disk' = [D1 EXCEPT ![ops[c].tid] =
                        IF @.exists THEN [NoDir EXCEPT !.exists = TRUE] ELSE @]
    /\ ops' = [ops EXCEPT ![c].pc = "rmdir"]
    /\ UNCHANGED <<sessions, readers, bus, calls, boot, hooks, aux>>

\* remove_dir_all ends with rmdir, which fails on a directory that is no
\* longer empty (the error is ignored); then emit_status (stopped) and Ok.
\* The removed entry is dropped.
CloseRmdir(c) ==
    /\ ops[c].op = "close" /\ ops[c].pc = "rmdir"
    /\ disk' = [disk EXCEPT ![ops[c].tid] =
                    IF @ = [NoDir EXCEPT !.exists = TRUE] THEN NoDir ELSE @]
    /\ bus' = Append(bus, TerminalStatus(ops[c].tid, "stopped", 0))
    /\ ops' = [ops EXCEPT ![c] = Done("close", ops[c].tid, "ok")]
    /\ UNCHANGED <<sessions, readers, boot>>
    /\ LET g == DropUnreferenced(pers, inodes, sessions', readers', ops', boot')
       IN pers' = g.pers /\ inodes' = g.inodes
    /\ UNCHANGED <<shutdown, calls, hooks, aux>>

\* --------------------------------------------------- mark_session_stopped
MarkStoppedNotFound(c, t) ==
    /\ CanCall(c)
    /\ t \notin DOMAIN sessions
    /\ calls' = calls + 1
    /\ ops' = [ops EXCEPT ![c] = Done("mark_stopped", t, "terminal_not_found")]
    /\ UNCHANGED <<sessions, readers, shutdown, pers, inodes, disk, bus, boot, hooks, aux>>

MarkSessionStopped(c, t) ==
    /\ CanCall(c)
    /\ t \in DOMAIN sessions
    /\ calls' = calls + 1
    /\ LET p == sessions[t].persistence
           m == MarkEnded(pers[p], inodes, disk[pers[p].dir])
       IN /\ sessions' = [sessions EXCEPT ![t].pty = 0, ![t].status = "stopped"]
          /\ pers' = [pers EXCEPT ![p] = m.P]
          /\ inodes' = m.F
          /\ disk' = [disk EXCEPT ![pers[p].dir] = m.D]
    /\ bus' = Append(bus, TerminalStatus(t, "stopped", 0))
    /\ ops' = [ops EXCEPT ![c] = Done("mark_stopped", t, "ok")]
    /\ UNCHANGED <<readers, shutdown, boot, hooks, aux>>

\* --------------------------------- restart_session, switch_session_agent
\* switch_session_agent is restart_session with a client (# "") to set.
RestartOp(client) == IF client = "" THEN "restart" ELSE "switch"

RestartNotFound(c, t, client) ==
    /\ CanCall(c)
    /\ t \notin DOMAIN sessions
    /\ calls' = calls + 1
    /\ ops' = [ops EXCEPT ![c] = Done(RestartOp(client), t, "terminal_not_found")]
    /\ UNCHANGED <<sessions, readers, shutdown, pers, inodes, disk, bus, boot, hooks, aux>>

\* Phase 1, under the write lock: the old reader is signalled, the PTY
\* dropped, the status set starting, the persistence reset, a fresh flag
\* installed and the reader handle taken. A reset that cannot open
\* scrollback.bin (the directory is gone) returns its error from the middle
\* of the phase.
RestartPhase1(c, t, client) ==
    /\ CanCall(c)
    /\ t \in DOMAIN sessions
    /\ calls' = calls + 1
    /\ LET e == sessions[t]
           p == e.persistence
           d == pers[p].dir
           cl == IF client = "" THEN e.client_id ELSE client
           r == PersistenceReset(pers[p], SessionMeta(cl, FALSE), inodes, disk[d])
           e1 == [e EXCEPT !.pty = 0, !.status = "starting", !.client_id = cl]
       IN /\ shutdown' = Signal(e.shutdown)
          /\ IF disk[d].exists
             THEN /\ sessions' = [sessions EXCEPT ![t] =
                            [e1 EXCEPT !.shutdown = 0, !.reader_handle = 0]]
                  /\ pers' = [pers EXCEPT ![p] = r.P]
                  /\ inodes' = r.F
                  /\ disk' = [disk EXCEPT ![d] = r.D]
                  /\ ops' = [ops EXCEPT ![c] = [Call(RestartOp(client), t) EXCEPT
                                            !.pc = "phase2", !.p = p]]
             ELSE /\ sessions' = [sessions EXCEPT ![t] = e1]
                  /\ ops' = [ops EXCEPT ![c] = Done(RestartOp(client), t, "io_error")]
                  /\ UNCHANGED <<pers, inodes, disk>>
    /\ UNCHANGED <<readers, bus, boot, hooks, aux>>

IsRestart(c) == ops[c].op \in {"restart", "switch"}

\* Phase 2, under the write lock again: the entry is gone, or spawn_pty
\* fails; the error is returned
RestartPhase2Fails(c) ==
    /\ IsRestart(c) /\ ops[c].pc = "phase2"
    /\ ops' = [ops EXCEPT ![c] = Done(ops[c].op, ops[c].tid,
                    IF ops[c].tid \in DOMAIN sessions THEN "terminal_error"
                    ELSE "terminal_not_found")]
    /\ UNCHANGED <<sessions, readers, boot>>
    /\ LET g == DropUnreferenced(pers, inodes, sessions', readers', ops', boot')
       IN pers' = g.pers /\ inodes' = g.inodes
    /\ UNCHANGED <<shutdown, disk, bus, calls, hooks, aux>>

\* Phase 2: the new PTY is spawned with the persistence taken in phase 1 and
\* a fresh flag; the entry is set running and the status emitted
RestartPhase2(c) ==
    /\ IsRestart(c) /\ ops[c].pc = "phase2"
    /\ ops[c].tid \in DOMAIN sessions
    /\ CanSpawn
    /\ LET k == Len(readers) + 1
           t == ops[c].tid
       IN /\ readers' = Append(readers, Reader(t, ops[c].p))
          /\ shutdown' = Append(shutdown, FALSE)
          /\ sessions' = [sessions EXCEPT ![t] =
                [@ EXCEPT !.pty = k, !.status = "running", !.shutdown = k,
                          !.reader_handle = k, !.inc = k,
                          !.agent_status = IF ops[c].op = "switch" THEN "idle" ELSE @]]
          /\ bus' = Append(bus, TerminalStatus(t, "running", 0))
    /\ ops' = [ops EXCEPT ![c] = Done(ops[c].op, ops[c].tid, "ok")]
    /\ UNCHANGED boot
    /\ LET g == DropUnreferenced(pers, inodes, sessions', readers', ops', boot')
       IN pers' = g.pers /\ inodes' = g.inodes
    /\ UNCHANGED <<disk, calls, hooks, aux>>

\* ------------------------------------------------------ pty-reader thread
At(k, pc) == k \in 1..Len(readers) /\ readers[k].pc = pc

\* reader.read returns Ok(n), n > 0: write_output under the persistence mutex
ReaderRead(k, len) ==
    /\ At(k, "read")
    /\ readers[k].n < MaxReads
    /\ LET p == readers[k].pers
           d == pers[p].dir
           data == Chunk(k, readers[k].n + 1, len)
           w == WriteOutput(pers[p], inodes, disk[d], data)
       IN /\ pers' = [pers EXCEPT ![p] = w.P]
          /\ inodes' = w.F
          /\ disk' = [disk EXCEPT ![d] = w.D]
          /\ readers' = [readers EXCEPT ![k].pc = "emit", ![k].n = @ + 1,
                                        ![k].data = data]
    /\ UNCHANGED <<sessions, shutdown, bus, ops, calls, boot, hooks, aux>>

\* reader.read returns Ok(0) or an error: the loop is left
ReaderReadEnds(k) ==
    /\ At(k, "read")
    /\ readers' = [readers EXCEPT ![k].pc = "exit"]
    /\ UNCHANGED <<sessions, shutdown, pers, inodes, disk, bus, ops, calls, boot, hooks, aux>>

\* event_tx.send(TerminalOutput); back at the loop head the shutdown flag is
\* loaded
ReaderEmit(k) ==
    /\ At(k, "emit")
    /\ bus' = Append(bus, TerminalOutput(readers[k].tid, readers[k].data))
    /\ readers' = [readers EXCEPT ![k].pc = IF shutdown[k] THEN "exit" ELSE "read",
                                  ![k].data = NoChunk]
    /\ UNCHANGED <<sessions, shutdown, pers, inodes, disk, ops, calls, boot, hooks, aux>>

\* On exit, under the write lock: the entry registered under the reader's
\* terminal id, if any, is set stopped, its PTY dropped, its persistence
\* marked ended and the stopped status sent. Then the thread ends.
ReaderExit(k) ==
    /\ At(k, "exit")
    /\ readers[k].tid \in DOMAIN sessions
    /\ readers' = [readers EXCEPT ![k].pc = "done", ![k].n = 0]
    /\ UNCHANGED <<ops, boot>>
    /\ LET t == readers[k].tid
           p == sessions[t].persistence
           m == MarkEnded(pers[p], inodes, disk[pers[p].dir])
       IN /\ sessions' = [sessions EXCEPT ![t].status = "stopped", ![t].pty = 0]
          /\ disk' = [disk EXCEPT ![pers[p].dir] = m.D]
          /\ bus' = Append(bus, TerminalStatus(t, "stopped", k))
          /\ LET g == DropUnreferenced([pers EXCEPT ![p] = m.P], m.F,
                                       sessions', readers', ops', boot')
             IN pers' = g.pers /\ inodes' = g.inodes
    /\ UNCHANGED <<shutdown, calls, hooks, aux>>

\* On exit with no entry under the reader's terminal id: a warning is logged
ReaderExitNoEntry(k) ==
    /\ At(k, "exit")
    /\ readers[k].tid \notin DOMAIN sessions
    /\ readers' = [readers EXCEPT ![k].pc = "done", ![k].n = 0]
    /\ UNCHANGED <<sessions, ops, boot>>
    /\ LET g == DropUnreferenced(pers, inodes, sessions', readers', ops', boot')
       IN pers' = g.pers /\ inodes' = g.inodes
    /\ UNCHANGED <<shutdown, disk, bus, calls, hooks, aux>>

\* ------------------------------------------- hook endpoint (notification)
HookEvents == {"Start", "Stop", "Permission", "Notification", "stop"}

\* a match that takes Stop for Start
AgentStatusOfStopWorking(event) ==
    CASE event \in {"Start", "Stop"} -> "working"
      [] event = "Permission" -> "permission"
      [] OTHER -> ""

\* the match of handle_agent_event: the AgentStatus of an event, "" for None
AgentStatusOf(event) ==
    CASE event = "Start" -> "working"
      [] event = "Stop" -> "idle"
      [] event = "Permission" -> "permission"
      [] OTHER -> ""

\* DaemonEvent::HookEvent and DaemonEvent::AgentStatus sent by hook call h
HookEvent(tid, event, h) == Event("hook_event", tid, "", h, 0, 0, event)

AgentStatusEvent(tid, status, h) == Event("agent_status", tid, status, h, 0, 0, "")

\* A request whose query lacks terminal_id or event: the Query extractor
\* rejects it and the handler does not run.
HookRejected(h) ==
    /\ hooks[h].pc = "none"
    /\ hooks' = [hooks EXCEPT ![h] = [@ EXCEPT !.pc = "done", !.response = "400"]]
    /\ UNCHANGED <<sessions, readers, shutdown, pers, inodes, disk, bus, ops, calls, boot, aux>>

\* handle_agent_event is entered and sends the raw HookEvent
HandleAgentEvent(h, tid, event) ==
    /\ hooks[h].pc = "none"
    /\ bus' = Append(bus, HookEvent(tid, event, h))
    /\ hooks' = [hooks EXCEPT ![h] = [@ EXCEPT !.pc = "map", !.event = event,
                                                !.terminal_id = tid]]
    /\ UNCHANGED <<sessions, readers, shutdown, pers, inodes, disk, ops, calls, boot, aux>>

\* a known event is mapped and its AgentStatus sent
HookAgentStatus(h) ==
    /\ hooks[h].pc = "map"
    /\ AgentStatusOf(hooks[h].event) # ""
    /\ bus' = Append(bus, AgentStatusEvent(hooks[h].terminal_id,
                                           AgentStatusOf(hooks[h].event), h))
    /\ hooks' = [hooks EXCEPT ![h].pc = "respond"]
    /\ UNCHANGED <<sessions, readers, shutdown, pers, inodes, disk, ops, calls, boot, aux>>

\* any other event is mapped to None
HookNoStatus(h) ==
    /\ hooks[h].pc = "map"
    /\ AgentStatusOf(hooks[h].event) = ""
    /\ hooks' = [hooks EXCEPT ![h].pc = "respond"]
    /\ UNCHANGED <<sessions, readers, shutdown, pers, inodes, disk, bus, ops, calls, boot, aux>>

\* Json("ok")
HookRespond(h) ==
    /\ hooks[h].pc = "respond"
    /\ hooks' = [hooks EXCEPT ![h] = [@ EXCEPT !.pc = "done", !.response = "200 ok"]]
    /\ UNCHANGED <<sessions, readers, shutdown, pers, inodes, disk, bus, ops, calls, boot, aux>>

\* ------------------------------------------------------------------ Next
Recovery ==
    \/ \E t \in TermIds : LoadSkip(t) \/ LoadStopped(t) \/ LoadSpawn(t)
    \/ LoadInsert

ManagerCall ==
    \E c \in Callers :
        \/ \E t \in TermIds :
            \/ CreateInvalid(c, t) \/ CreateSpawnFails(c, t) \/ CreateSession(c, t)
            \/ CloseNotFound(c, t) \/ CloseSession(c, t)
            \/ MarkStoppedNotFound(c, t) \/ MarkSessionStopped(c, t)
            \/ \E cl \in {"", "c2"} :
                \/ RestartNotFound(c, t, cl) \/ RestartPhase1(c, t, cl)
        \/ CreateInsert(c) \/ CreateEmit(c)
        \/ CloseMark(c) \/ CloseRmdir(c)
        \/ RestartPhase2Fails(c) \/ RestartPhase2(c)

ReaderStep ==
    \E k \in 1..MaxSpawns :
        \/ \E len \in ChunkLens : ReaderRead(k, len)
        \/ ReaderReadEnds(k)
        \/ ReaderEmit(k)
        \/ ReaderExit(k) \/ ReaderExitNoEntry(k)

Next == Recovery \/ ManagerCall \/ ReaderStep

Spec == Init /\ [][Next]_vars

\* The hook endpoint alone: its calls run on the HTTP server's tasks and
\* share only the bus with the session manager.
HookStep ==
    \E h \in 1..MaxHookCalls :
        \/ HookRejected(h)
        \/ \E t \in TermIds, e \in HookEvents : HandleAgentEvent(h, t, e)
        \/ HookAgentStatus(h) \/ HookNoStatus(h)
        \/ HookRespond(h)

SpecHook == Init /\ [][HookStep]_vars

\* ---------------------------------------- the agent-status mirror task
\* The capacity of the broadcast channel (EVENT_BUFFER_SIZE), scaled down.
BusCapacity == 2

\* an update that registers an id it does not find
UpdateAgentStatusInserting(S, t, status) ==
    IF t \in DOMAIN S THEN [S EXCEPT ![t].agent_status = status]
    ELSE Put(S, t, [NoEntry EXCEPT !.agent_status = status])

\* update_agent_status: the entry's agent_status is set if the id is registered
UpdateAgentStatus(S, t, status) ==
    IF t \in DOMAIN S THEN [S EXCEPT ![t].agent_status = status] ELSE S

\* event_tx.subscribe() and tokio::spawn, after SessionManager::new returned:
\* the receiver sees the events sent from now on.
MirrorSubscribe ==
    /\ mirror.pc = "off"
    /\ Serving
    /\ mirror' = [pc |-> "recv", pos |-> Len(bus) + 1, start |-> Len(bus) + 1]
    /\ UNCHANGED <<sessions, readers, shutdown, pers, inodes, disk, bus, ops, calls,
                   boot, hooks, app, limit, crashes, saves, conn, more>>

\* the events the receiver has not taken yet
Behind == Len(bus) + 1 - mirror.pos

\* agent_rx.recv() returns Ok(event): an AgentStatus is applied, any other
\* event is dropped.
MirrorRecv ==
    /\ mirror.pc = "recv"
    /\ Behind >= 1
    /\ Behind <= BusCapacity
    /\ LET e == bus[mirror.pos]
       IN sessions' = IF e.type = "agent_status"
                        THEN UpdateAgentStatus(sessions, e.terminal_id, e.status)
                        ELSE sessions
    /\ mirror' = [mirror EXCEPT !.pos = @ + 1]
    /\ UNCHANGED <<readers, shutdown, pers, inodes, disk, bus, ops, calls, boot, hooks,
                   app, limit, crashes, saves, conn, more>>

\* agent_rx.recv() returns Err(Lagged): `while let Ok(..)` ends the loop and
\* the task.
MirrorLagged ==
    /\ mirror.pc = "recv"
    /\ Behind > BusCapacity
    /\ mirror' = [mirror EXCEPT !.pc = "ended"]
    /\ UNCHANGED <<sessions, readers, shutdown, pers, inodes, disk, bus, ops, calls,
                   boot, hooks, app, limit, crashes, saves, conn, more>>

MirrorStep == MirrorSubscribe \/ MirrorRecv \/ MirrorLagged

\* recovery, the hook endpoint and the mirror task of one daemon run
NextMirror == Recovery \/ HookStep \/ MirrorStep

SpecMirror == Init /\ [][NextMirror]_vars

\* ------------------------------------ recovery over two session directories
BootIds == <<"t1", "t2">>

\* what a previous run can have left in the i-th directory (see InitDirs)
DirsAt(i) ==
    {NoDir} \cup
    {[exists |-> TRUE, meta |-> m, tmp |-> <<>>, scroll |-> i] :
        m \in {<<>>, <<SessionMeta("c1", FALSE)>>, <<SessionMeta("c1", TRUE)>>}}

InitBoot ==
    /\ sessions = [t \in {} |-> NoEntry]
    /\ readers = <<>>
    /\ shutdown = <<>>
    /\ pers = <<>>
    /\ inodes = [i \in 1..Len(BootIds) |-> <<>>]
    /\ \E d \in [1..Len(BootIds) -> UNION {DirsAt(i) : i \in 1..Len(BootIds)}] :
          /\ \A i \in 1..Len(BootIds) : d[i] \in DirsAt(i)
          /\ disk = [t \in {BootIds[i] : i \in 1..Len(BootIds)} |->
                        d[CHOOSE i \in 1..Len(BootIds) : BootIds[i] = t]]
    /\ bus = <<>>
    /\ ops = [c \in Callers |-> IdleOp]
    /\ calls = 0
    /\ boot = [todo |-> {t \in DOMAIN disk : disk[t].exists}, pc |-> "scan",
               tid |-> "", p |-> 0, k |-> 0]
    /\ hooks = InitHooks
    /\ mirror = NoMirror
    /\ app = InitApp
    /\ limit = MaxCalls
    /\ crashes = 0
    /\ saves = NoSaves
    /\ conn = Accepted
    /\ InitMore

\* load_from_disk over these directories
RecoveryBoot ==
    \/ \E t \in {"t1", "t2"} : LoadSkip(t) \/ LoadStopped(t) \/ LoadSpawn(t)
    \/ LoadInsert

\* load_from_disk, with the reader threads it has started running beside it
NextBoot == RecoveryBoot \/ ReaderStep

SpecBoot == InitBoot /\ [][NextBoot]_vars

\* ------------------------------------------- the daemon killed and restarted
MaxCrashes == 1

\* the lengths of the scrollback a previous run has left: none, one read
\* below the limit, one byte below the limit
ScrollLens == {0, MAX_SCROLLBACK_BYTES - ReadBufBytes, MAX_SCROLLBACK_BYTES - 1}

\* n bytes written by a PTY of a previous run
PrevRun(n) == IF n = 0 THEN <<>> ELSE <<Chunk(-1, 0, n)>>

\* One session directory of a previous run that stopped cleanly: meta.json
\* missing or saved after the last flush, so that scrollback_bytes is the
\* length of scrollback.bin.
InitCrash ==
    /\ sessions = [t \in {} |-> NoEntry]
    /\ readers = <<>>
    /\ shutdown = <<>>
    /\ pers = <<>>
    /\ \E n \in ScrollLens :
          /\ inodes = [i \in 1..Cardinality(TermIds) |-> PrevRun(n)]
          /\ \E m \in {<<>>} \cup
                      {<<[SessionMeta("c1", e) EXCEPT !.scrollback_bytes = n]>> :
                          e \in BOOLEAN} :
                disk = [t \in TermIds |->
                          [exists |-> TRUE, meta |-> m, tmp |-> <<>>,
                           scroll |-> TermIndex[t]]]
    /\ bus = <<>>
    /\ ops = [c \in Callers |-> IdleOp]
    /\ calls = 0
    /\ boot = [todo |-> {t \in TermIds : disk[t].exists}, pc |-> "scan",
               tid |-> "", p |-> 0, k |-> 0]
    /\ hooks = InitHooks
    /\ mirror = NoMirror
    /\ app = InitApp
    /\ limit = MaxCalls
    /\ crashes = 0
    /\ saves = NoSaves
    /\ conn = Accepted
    /\ InitMore

\* The process is gone and started again: the registry, the threads, the
\* BufWriters' pending bytes and the channel are lost, the disk stays, and
\* SessionManager::new scans the sessions directory from the start.
Restarted(F, D) ==
    /\ crashes < MaxCrashes
    /\ crashes' = crashes + 1
    /\ sessions' = [t \in {} |-> NoEntry]
    /\ readers' = [k \in DOMAIN readers |->
                     [readers[k] EXCEPT !.pc = "done", !.n = 0, !.data = NoChunk]]
    /\ pers' = [i \in DOMAIN pers |-> [pers[i] EXCEPT !.buf = <<>>]]
    /\ inodes' = F
    /\ disk' = D
    /\ bus' = <<>>
    /\ ops' = [c \in Callers |-> IdleOp]
    /\ boot' = [todo |-> {t \in DOMAIN D : D[t].exists}, pc |-> "scan",
                tid |-> "", p |-> 0, k |-> 0]
    /\ UNCHANGED <<shutdown, calls, hooks, mirror, app, limit, saves, conn, more>>

\* killed between two steps of its threads
Crash == Restarted(inodes, disk)

\* write_output(data) of reader k, up to the point where it is killed
Killed(k, len) ==
    LET p == readers[k].pers
        P == pers[p]
        D == disk[P.dir]
        data == Chunk(k, readers[k].n + 1, len)
        rot == P.bytes_written + len > MAX_SCROLLBACK_BYTES /\ D.scroll # 0
        r == IF rot THEN RotateScrollback(P, inodes, D) ELSE [P |-> P, F |-> inodes]
        P1 == [r.P EXCEPT !.buf = @ \o <<data>>,
                          !.bytes_written = @ + len,
                          !.bytes_since_flush = @ + len,
                          !.meta.scrollback_bytes = r.P.bytes_written + len]
    IN [dir |-> P.dir, rot |-> rot,
        full |-> P1.bytes_since_flush >= FlushEveryBytes,
        \* rotate_scrollback has flushed, read the file and opened it with
        \* truncate; the tail is not written yet
        truncated |-> [FlushFile(P, inodes) EXCEPT ![D.scroll] = <<>>],
        \* scrollback_writer.flush() has returned, save_meta has not started
        flushed |-> FlushFile(P1, r.F),
        \* atomic_write has written the temporary file and not renamed it
        tmp |-> [D EXCEPT !.tmp = <<P1.meta>>]]

CanWrite(k) == At(k, "read") /\ readers[k].n < MaxReads

CrashInRotate(k, len) ==
    /\ CanWrite(k)
    /\ Killed(k, len).rot
    /\ Restarted(Killed(k, len).truncated, disk)

CrashAfterFlush(k, len) ==
    /\ CanWrite(k)
    /\ Killed(k, len).full
    /\ Restarted(Killed(k, len).flushed, disk)

CrashInSaveMeta(k, len) ==
    /\ CanWrite(k)
    /\ Killed(k, len).full /\ disk[Killed(k, len).dir].exists
    /\ Restarted(Killed(k, len).flushed,
                 [disk EXCEPT ![Killed(k, len).dir] = Killed(k, len).tmp])

CrashStep ==
    \/ Crash
    \/ \E k \in 1..MaxSpawns, len \in ChunkLens :
          \/ CrashInRotate(k, len)
          \/ CrashAfterFlush(k, len)
          \/ CrashInSaveMeta(k, len)

NextCrash == Recovery \/ ReaderStep \/ CrashStep

SpecCrash == InitCrash /\ [][NextCrash]_vars

\* ---------------------------- util::atomic_write of meta.json, step by step
\* Two SessionPersistence objects can be open on one directory: that of a
\* session removed by close_session, whose reader thread still runs, and that
\* of the create_session that uses the id again. Each serialises its own
\* saves under its mutex; nothing serialises the two.
MaxSaves == 2

\* the serialised SessionMeta of object i's n-th save, written in two blocks
MetaBlock(i, n, b) == [by |-> i, n |-> n, block |-> b]

MetaJson(i, n) == <<MetaBlock(i, n, 1), MetaBlock(i, n, 2)>>

\* write(2) of one block at block offset off (a gap is a hole of NULs)
WriteBlock(file, off, blk) ==
    [k \in 1..(IF Len(file) > off THEN Len(file) ELSE off + 1) |->
        IF k = off + 1 THEN blk
        ELSE IF k <= Len(file) THEN file[k]
        ELSE MetaBlock(0, 0, 0)]

\* fs::write opens path.with_extension("tmp"), the one temporary name of the
\* directory, with create and truncate
SaveOpen(i) ==
    /\ saves.procs[i].pc = "idle"
    /\ saves.procs[i].n < MaxSaves
    /\ saves' = IF saves.tmp = 0
                THEN [saves EXCEPT !.files = Append(@, <<>>),
                                   !.tmp = Len(saves.files) + 1,
                                   !.procs[i].fd = Len(saves.files) + 1,
                                   !.procs[i].pc = "write1",
                                   !.procs[i].n = @ + 1]
                ELSE [saves EXCEPT !.files[saves.tmp] = <<>>,
                                   !.procs[i].fd = saves.tmp,
                                   !.procs[i].pc = "write1",
                                   !.procs[i].n = @ + 1]
    /\ UNCHANGED <<daemon, app, conn, more>>

\* fs::write writes the content: the first block at offset 0 ...
SaveWrite1(i) ==
    /\ saves.procs[i].pc = "write1"
    /\ saves' = [saves EXCEPT
                    !.files[saves.procs[i].fd] =
                        WriteBlock(@, 0, MetaBlock(i, saves.procs[i].n, 1)),
                    !.procs[i].pc = "write2"]
    /\ UNCHANGED <<daemon, app, conn, more>>

\* ... the second after it; the file is closed
SaveWrite2(i) ==
    /\ saves.procs[i].pc = "write2"
    /\ saves' = [saves EXCEPT
                    !.files[saves.procs[i].fd] =
                        WriteBlock(@, 1, MetaBlock(i, saves.procs[i].n, 2)),
                    !.procs[i].pc = "rename", !.procs[i].fd = 0]
    /\ UNCHANGED <<daemon, app, conn, more>>

\* fs::rename of the temporary name over meta.json
SaveRename(i) ==
    /\ saves.procs[i].pc = "rename"
    /\ saves.tmp # 0
    /\ saves' = [saves EXCEPT !.meta = saves.tmp, !.tmp = 0, !.procs[i].pc = "idle"]
    /\ UNCHANGED <<daemon, app, conn, more>>

\* fs::rename when the temporary name is gone: the save returns the error
SaveRenameFails(i) ==
    /\ saves.procs[i].pc = "rename"
    /\ saves.tmp = 0
    /\ saves' = [saves EXCEPT !.procs[i].pc = "idle"]
    /\ UNCHANGED <<daemon, app, conn, more>>

\* the process is killed: every save in flight stops where it is
SaveCrash ==
    /\ \E i \in Savers : saves.procs[i].pc \notin {"idle", "dead"}
    /\ saves' = [saves EXCEPT !.procs = [i \in Savers |->
                                  [pc |-> "dead", fd |-> 0, n |-> saves.procs[i].n]]]
    /\ UNCHANGED <<daemon, app, conn, more>>

SaveStep ==
    \/ \E i \in Savers :
          \/ SaveOpen(i) \/ SaveWrite1(i) \/ SaveWrite2(i)
          \/ SaveRename(i) \/ SaveRenameFails(i)
    \/ SaveCrash

SpecSave == Init /\ [][SaveStep]_vars

\* ------------------------------------------------ one IPC connection
MaxLines == 3           \* lines the client sends
MaxEvents == 1          \* events forwarded to the connection

\* the request ids a client uses (it may use one twice)
ReqIds == {"r1", "r2"}

\* a Response with an empty id
ResponseNoId(req) == [type |-> "response", id |-> "", error |-> req.fails]

\* DaemonMessage::Response { id, response }: the request's id, and
\* DaemonResponse::Error when the manager returned Err
ResponseTo(req) == [type |-> "response", id |-> req.id, error |-> req.fails]

\* DaemonMessage::Event forwarded by the connection's event task
EventLine == [type |-> "event", id |-> "", error |-> FALSE]

\* UnboundedSender::send: the line is queued unless the receiver is gone
Send(C, line) == IF C.open THEN [C EXCEPT !.out = Append(@, line)] ELSE C

CanReadLine == ~conn.eof /\ conn.cur = <<>> /\ conn.lines < MaxLines

\* next_line returns a line that parses as DaemonMessage::Request; fails: the
\* session manager will return Err for it
ConnReadRequest(id, fails) ==
    /\ CanReadLine
    /\ conn' = [conn EXCEPT !.lines = @ + 1,
                            !.cur = <<[id |-> id, fails |-> fails]>>]
    /\ UNCHANGED <<daemon, app, saves, more>>

\* a read loop that breaks where the code continues: the line ends the loop
ConnReadSkippedBreaks ==
    /\ CanReadLine
    /\ conn' = [conn EXCEPT !.lines = @ + 1, !.eof = TRUE, !.open = FALSE]
    /\ UNCHANGED <<daemon, app, saves, more>>

\* next_line returns a line that does not parse, or parses as a Response or
\* an Event: the loop continues with the next line
ConnReadSkipped ==
    /\ CanReadLine
    /\ conn' = [conn EXCEPT !.lines = @ + 1]
    /\ UNCHANGED <<daemon, app, saves, more>>

\* handle_request has returned: the Response is serialised and sent into the
\* out channel, a send error is ignored
ConnRespond ==
    /\ conn.cur # <<>>
    /\ conn' = [Send(conn, ResponseTo(conn.cur[1])) EXCEPT
                    !.cur = <<>>, !.handled = Append(@, conn.cur[1])]
    /\ UNCHANGED <<daemon, app, saves, more>>

\* the event task forwards an event of the bus
ConnEvent ==
    /\ ~conn.eof /\ conn.events < MaxEvents
    /\ conn' = [Send(conn, EventLine) EXCEPT !.events = @ + 1]
    /\ UNCHANGED <<daemon, app, saves, more>>

\* the write task takes the next line and writes it to the socket
ConnWrite ==
    /\ conn.open /\ conn.written < Len(conn.out)
    /\ conn' = [conn EXCEPT !.written = @ + 1]
    /\ UNCHANGED <<daemon, app, saves, more>>

\* write_all fails (the client has closed its end): the write task breaks
\* and drops the receiver
ConnWriteFails ==
    /\ conn.open /\ conn.written < Len(conn.out)
    /\ conn' = [conn EXCEPT !.open = FALSE]
    /\ UNCHANGED <<daemon, app, saves, more>>

\* next_line returns None or an error: the loop is left, both tasks aborted
ConnEof ==
    /\ ~conn.eof /\ conn.cur = <<>>
    /\ conn' = [conn EXCEPT !.eof = TRUE, !.open = FALSE]
    /\ UNCHANGED <<daemon, app, saves, more>>

ConnStep ==
    \/ \E id \in ReqIds, fails \in BOOLEAN : ConnReadRequest(id, fails)
    \/ ConnReadSkipped
    \/ ConnRespond
    \/ ConnEvent
    \/ ConnWrite
    \/ ConnWriteFails
    \/ ConnEof

SpecConn == Init /\ [][ConnStep]_vars

\* -------------------- create, close and mark_session_stopped, three calls
\* a run that issues one call more than MaxCalls
InitStop ==
    /\ sessions = [t \in {} |-> NoEntry]
    /\ readers = <<>>
    /\ shutdown = <<>>
    /\ pers = <<>>
    /\ inodes = [i \in 1..Cardinality(TermIds) |-> <<>>]
    /\ disk \in {d \in [TermIds -> UNION {InitDirs(t) : t \in TermIds}] :
                    \A t \in TermIds : d[t] \in InitDirs(t)}
    /\ bus = <<>>
    /\ ops = [c \in Callers |-> IdleOp]
    /\ calls = 0
    /\ boot = [todo |-> {t \in TermIds : disk[t].exists}, pc |-> "scan",
               tid |-> "", p |-> 0, k |-> 0]
    /\ hooks = InitHooks
    /\ mirror = NoMirror
    /\ app = InitApp
    /\ limit = MaxCalls + 1
    /\ crashes = 0
    /\ saves = NoSaves
    /\ conn = Accepted
    /\ InitMore

StopCall ==
    \E c \in Callers :
        \/ \E t \in TermIds :
            \/ CreateInvalid(c, t) \/ CreateSpawnFails(c, t) \/ CreateSession(c, t)
            \/ CloseNotFound(c, t) \/ CloseSession(c, t)
            \/ MarkStoppedNotFound(c, t) \/ MarkSessionStopped(c, t)
        \/ CreateInsert(c) \/ CreateEmit(c)
        \/ CloseMark(c) \/ CloseRmdir(c)

\* the reader threads stay blocked in read (the PTYs are quiet)
NextStop == Recovery \/ StopCall

SpecStop == InitStop /\ [][NextStop]_vars

\* ------------------------------- terminal commands of the GUI (AppState)
MaxTerminals == 2       \* terminals created in one run
MaxAppCalls == 4        \* commands issued in one run
MaxBuffered == 1        \* chunks pushed into one output buffer

AppTerminal(is_main) == [status |-> "running", is_main |-> is_main]

\* a check that takes no terminal for main
NoMainTerminal(id) == FALSE

\* the check at the head of close_terminal: the id names a main terminal
IsMainTerminal(id) ==
    id \in DOMAIN app.terminals /\ app.terminals[id].is_main

\* a command returns: counted and recorded
AppReturn(A, cmd, id, result) ==
    [A EXCEPT !.calls = @ + 1,
              !.last = [cmd |-> cmd, id |-> id, result |-> result]]

AppCanCall == app.calls < MaxAppCalls

\* Uuid::new_v4: an id no terminal has had
NewTerminalId == app.spawned + 1

\* the three inserts at the end of create_terminal / create_main_terminal
AppInsert(A, id, is_main) ==
    [A EXCEPT !.terminals = Put(A.terminals, id, AppTerminal(is_main)),
              !.pty_handles = @ \cup {id},
              !.output_buffers = Put(A.output_buffers, id, 0),
              !.spawned = @ + 1]

\* create_terminal: PTY spawned, terminal inserted with is_main = false
AppCreateTerminal ==
    /\ AppCanCall /\ app.spawned < MaxTerminals
    /\ app' = AppReturn(AppInsert(app, NewTerminalId, FALSE),
                        "create_terminal", NewTerminalId, "ok")
    /\ UNCHANGED <<daemon, saves, conn, more>>

\* create_terminal / create_main_terminal when spawn_pty fails: `?` returns
\* before anything is inserted
AppCreateFails(cmd) ==
    /\ AppCanCall
    /\ cmd = "create_main_terminal" => app.main_terminal_id \notin DOMAIN app.terminals
    /\ app' = AppReturn(app, cmd, 0, "terminal_error")
    /\ UNCHANGED <<daemon, saves, conn, more>>

\* create_main_terminal when the project's main terminal exists: returned as is
AppCreateMainExists ==
    /\ AppCanCall
    /\ app.main_terminal_id \in DOMAIN app.terminals
    /\ app' = AppReturn(app, "create_main_terminal", app.main_terminal_id, "ok")
    /\ UNCHANGED <<daemon, saves, conn, more>>

\* create_main_terminal: PTY spawned, terminal inserted with is_main = true,
\* project.main_terminal_id set
AppCreateMainTerminal ==
    /\ AppCanCall /\ app.spawned < MaxTerminals
    /\ app.main_terminal_id \notin DOMAIN app.terminals
    /\ app' = AppReturn([AppInsert(app, NewTerminalId, TRUE)
                            EXCEPT !.main_terminal_id = NewTerminalId],
                        "create_main_terminal", NewTerminalId, "ok")
    /\ UNCHANGED <<daemon, saves, conn, more>>

AppIds == 1..MaxTerminals

\* close_terminal on a main terminal: refused before anything is removed
AppCloseRefused(id) ==
    /\ AppCanCall
    /\ IsMainTerminal(id)
    /\ app' = AppReturn(app, "close_terminal", id, "invalid_request")
    /\ UNCHANGED <<daemon, saves, conn, more>>

\* close_terminal otherwise: terminal, PTY handle and output buffer removed
\* (an unknown id removes nothing and returns Ok as well)
AppClose(id) ==
    /\ AppCanCall
    /\ ~IsMainTerminal(id)
    /\ app' = AppReturn([app EXCEPT !.terminals = Remove(@, id),
                                    !.pty_handles = @ \ {id},
                                    !.output_buffers = Remove(@, id)],
                        "close_terminal", id, "ok")
    /\ UNCHANGED <<daemon, saves, conn, more>>

\* mark_terminal_stopped: status set if the terminal exists, PTY handle
\* removed, then the terminal looked up for the answer
AppMarkStopped(id) ==
    /\ AppCanCall
    /\ app' = AppReturn([app EXCEPT
                            !.terminals = IF id \in DOMAIN @
                                            THEN [@ EXCEPT ![id].status = "stopped"]
                                            ELSE @,
                            !.pty_handles = @ \ {id}],
                        "mark_terminal_stopped", id,
                        IF id \in DOMAIN app.terminals THEN "ok"
                                                       ELSE "terminal_not_found")
    /\ UNCHANGED <<daemon, saves, conn, more>>

\* restart_terminal on an unknown id
AppRestartNotFound(id) ==
    /\ AppCanCall
    /\ id \notin DOMAIN app.terminals
    /\ app' = AppReturn(app, "restart_terminal", id, "terminal_not_found")
    /\ UNCHANGED <<daemon, saves, conn, more>>

\* restart_terminal: old PTY handle dropped, new PTY spawned with a fresh
\* output buffer, status running
AppRestart(id) ==
    /\ AppCanCall
    /\ id \in DOMAIN app.terminals
    /\ app' = AppReturn([app EXCEPT !.terminals[id].status = "running",
                                    !.pty_handles = @ \cup {id},
                                    !.output_buffers = Put(@, id, 0)],
                        "restart_terminal", id, "ok")
    /\ UNCHANGED <<daemon, saves, conn, more>>

\* restart_terminal when spawn_pty fails: the old PTY handle is gone, the
\* rest is as it was
AppRestartFails(id) ==
    /\ AppCanCall
    /\ id \in DOMAIN app.terminals
    /\ app' = AppReturn([app EXCEPT !.pty_handles = @ \ {id}],
                        "restart_terminal", id, "terminal_error")
    /\ UNCHANGED <<daemon, saves, conn, more>>

\* the PTY's reader pushes a chunk into the terminal's output buffer
AppOutput(id) ==
    /\ id \in app.pty_handles
    /\ id \in DOMAIN app.output_buffers
    /\ app.output_buffers[id] < MaxBuffered
    /\ app' = [app EXCEPT !.output_buffers[id] = @ + 1]
    /\ UNCHANGED <<daemon, saves, conn, more>>

AppStep ==
    \/ AppCreateTerminal
    \/ AppCreateMainTerminal
    \/ AppCreateMainExists
    \/ \E cmd \in {"create_terminal", "create_main_terminal"} : AppCreateFails(cmd)
    \/ \E id \in AppIds :
          \/ AppCloseRefused(id)
          \/ AppClose(id)
          \/ AppMarkStopped(id)
          \/ AppRestartNotFound(id)
          \/ AppRestart(id)
          \/ AppRestartFails(id)
          \/ AppOutput(id)

SpecApp == Init /\ [][AppStep]_vars

\* ------------------------------------ the event bus and its subscribers
MaxConns == 2           \* IPC connections that subscribe to the bus

\* An event forwarder before its connection is accepted. pos: the receiver's
\* cursor into the bus; start: the cursor at subscribe(); resumed: the cursor
\* the last lag signal left (start when there was none); got: the bus
\* positions of the events sent into the out channel, in order; lagged: the
\* lag signals received.
NoSub == [pc |-> "off", pos |-> 0, start |-> 0, resumed |-> 0, got |-> <<>>,
          lagged |-> 0]

\* broadcast::Receiver: the events sent and not yet taken by a cursor
BehindOf(pos) == Len(bus) + 1 - pos

\* the oldest event the channel still holds
OldestRetained == IF Len(bus) > BusCapacity THEN Len(bus) - BusCapacity + 1 ELSE 1

\* a connection is accepted: event_tx.subscribe(), the forwarder is spawned
SubSubscribe(i) ==
    /\ Serving
    /\ i = Len(subs) + 1
    /\ subs' = Append(subs, [NoSub EXCEPT !.pc = "recv", !.pos = Len(bus) + 1,
                                          !.start = Len(bus) + 1,
                                          !.resumed = Len(bus) + 1])
    /\ UNCHANGED besideSubs

SubAt(i) == i \in 1..Len(subs) /\ subs[i].pc = "recv"

\* event_rx.recv() returns Ok(event): the event is serialised and sent into
\* the connection's out channel
SubRecv(i) ==
    /\ SubAt(i)
    /\ BehindOf(subs[i].pos) >= 1
    /\ BehindOf(subs[i].pos) <= BusCapacity
    /\ subs' = [subs EXCEPT ![i].got = Append(@, subs[i].pos), ![i].pos = @ + 1]
    /\ UNCHANGED besideSubs

\* event_rx.recv() returns Err(Lagged(n)): the cursor is moved to the oldest
\* event retained, the lag is logged and the loop continues
SubLagged(i) ==
    /\ SubAt(i)
    /\ BehindOf(subs[i].pos) > BusCapacity
    /\ subs' = [subs EXCEPT ![i].pos = OldestRetained,
                            ![i].resumed = OldestRetained,
                            ![i].lagged = @ + 1]
    /\ UNCHANGED besideSubs

\* out_tx_events.send fails (the connection's write task has ended) or the
\* read loop ends and aborts the forwarder: the receiver is dropped
SubClosed(i) ==
    /\ SubAt(i)
    /\ subs' = [subs EXCEPT ![i].pc = "ended"]
    /\ UNCHANGED besideSubs

SubStep ==
    \E i \in 1..MaxConns :
        SubSubscribe(i) \/ SubRecv(i) \/ SubLagged(i) \/ SubClosed(i)

\* the hook endpoint called with an event that maps to a status and one that
\* does not
BusHookStep ==
    \E h \in 1..MaxHookCalls :
        \/ \E t \in TermIds, e \in {"Permission", "Notification"} :
              HandleAgentEvent(h, t, e)
        \/ HookAgentStatus(h) \/ HookNoStatus(h)
        \/ HookRespond(h)

\* a daemon started on an empty sessions directory
InitBus == Init /\ \A t \in TermIds : ~disk[t].exists

NextBus == BusHookStep \/ MirrorStep \/ SubStep

\* the hook endpoint as producer; the subscribers are the mirror task and the
\* forwarders of the connections
SpecBus == InitBus /\ [][NextBus]_vars

\* --------------------------------- the registry lock around each operation
MaxLockCalls == 2       \* session-manager calls issued in one run

\* What each operation does, in program order, with respect to the registry
\* lock: "read" / "write" take sessions.read() / sessions.write(), "unlock"
\* drops the guard; "get" looks the id up and "pty?" tests entry.pty (a miss
\* returns the error, which drops the guard); "insert", "remove", "stop"
\* (pty = None), "start" (pty = Some) and "resize" (cols, rows) edit the
\* registry; "fs" is file-system I/O whose error is returned, "fs_ignored"
\* file-system I/O whose error is ignored, "pty" a PTY syscall (openpty and
\* spawn, write, resize).
list_sessions == <<"read", "unlock">>

get_session == <<"read", "get", "unlock">>

\* SessionPersistence::new, spawn_pty, then the insert under a temporary guard
create_session == <<"fs", "pty", "write", "insert", "unlock">>

write_to_session == <<"read", "get", "pty?", "unlock", "pty">>

resize_session == <<"read", "get", "pty?", "unlock", "pty", "write", "resize", "unlock">>

\* mark_ended and remove_dir_all run after the guard's block
close_session == <<"write", "get", "remove", "unlock", "fs_ignored", "fs_ignored">>

\* the guard lives to the end of the function: mark_ended runs under it
mark_session_stopped == <<"write", "get", "stop", "fs_ignored", "unlock">>

\* phase 1: persistence.reset inside the guard's block; phase 2: the second
\* guard is taken before spawn_pty and lives to the end of the function
restart_session ==
    <<"write", "get", "stop", "fs", "unlock", "write", "get", "pty", "start", "unlock">>

switch_session_agent == restart_session

\* read_scrollback under the read guard
get_history == <<"read", "get", "fs_ignored", "unlock">>

LockOps ==
    [list_sessions |-> list_sessions, get_session |-> get_session,
     create_session |-> create_session, write_to_session |-> write_to_session,
     resize_session |-> resize_session, close_session |-> close_session,
     mark_session_stopped |-> mark_session_stopped,
     restart_session |-> restart_session,
     switch_session_agent |-> switch_session_agent, get_history |-> get_history]

\* the step caller c is at ("" when it has no call in flight)
Instr(c) == IF lk.th[c].pc = 0 THEN "" ELSE LockOps[lk.th[c].op][lk.th[c].pc]

Holds(c) == lk.writer = c \/ c \in lk.readers

\* the call returns: its guards are dropped
Finish(L, c, result) ==
    [L EXCEPT !.writer = IF @ = c THEN "" ELSE @,
              !.readers = @ \ {c},
              !.th[c] = [@ EXCEPT !.pc = 0, !.inio = FALSE, !.result = result]]

\* the next step, or the return after the last
Advance(L, c) ==
    IF L.th[c].pc = Len(LockOps[L.th[c].op]) THEN Finish(L, c, "ok")
    ELSE [L EXCEPT !.th[c].pc = @ + 1, !.th[c].inio = FALSE]

\* load_from_disk inserts a recovered entry, with a PTY or without, before
\* the daemon serves calls
LkLoad(t, pty) ==
    /\ lk.n = 0 /\ \A c \in Callers : lk.th[c].pc = 0
    /\ t \notin DOMAIN lk.reg
    /\ lk' = [lk EXCEPT !.reg = Put(lk.reg, t, pty)]
    /\ UNCHANGED besideLk

LkCall(c, op, t) ==
    /\ lk.th[c].pc = 0
    /\ lk.n < MaxLockCalls
    /\ lk' = [lk EXCEPT !.n = @ + 1,
                        !.th[c] = [NoCall EXCEPT !.op = op, !.tid = t, !.pc = 1]]
    /\ UNCHANGED besideLk

\* sessions.read(): granted while no write guard is held
LkRead(c) ==
    /\ Instr(c) = "read"
    /\ lk.writer = ""
    /\ lk' = Advance([lk EXCEPT !.readers = @ \cup {c}], c)
    /\ UNCHANGED besideLk

\* sessions.write(): granted while no guard is held
LkWrite(c) ==
    /\ Instr(c) = "write"
    /\ lk.writer = "" /\ lk.readers = {}
    /\ lk' = Advance([lk EXCEPT !.writer = c], c)
    /\ UNCHANGED besideLk

LkUnlock(c) ==
    /\ Instr(c) = "unlock"
    /\ lk' = Advance([lk EXCEPT !.writer = IF @ = c THEN "" ELSE @,
                                !.readers = @ \ {c}], c)
    /\ UNCHANGED besideLk

\* sessions.get / get_mut / remove(..).ok_or(TerminalNotFound)
LkGet(c) ==
    /\ Instr(c) = "get"
    /\ lk' = IF lk.th[c].tid \in DOMAIN lk.reg THEN Advance(lk, c)
             ELSE Finish(lk, c, "terminal_not_found")
    /\ UNCHANGED besideLk

\* entry.pty.as_ref().ok_or(TerminalError)
LkPtyCheck(c) ==
    /\ Instr(c) = "pty?"
    /\ lk' = IF lk.reg[lk.th[c].tid] THEN Advance(lk, c)
             ELSE Finish(lk, c, "terminal_error")
    /\ UNCHANGED besideLk

\* the structural edits
LkEdit(c) ==
    /\ Instr(c) \in {"insert", "remove", "stop", "start", "resize"}
    /\ LET t == lk.th[c].tid
           r == CASE Instr(c) \in {"insert", "start"} -> Put(lk.reg, t, TRUE)
                  [] Instr(c) = "remove" -> Remove(lk.reg, t)
                  [] Instr(c) = "stop" -> Put(lk.reg, t, FALSE)
                  [] OTHER -> lk.reg
       IN lk' = Advance([lk EXCEPT !.reg = r], c)
    /\ UNCHANGED besideLk

IoSteps == {"fs", "fs_ignored", "pty"}

\* the call enters a file-system or PTY syscall
LkIoBegin(c) ==
    /\ Instr(c) \in IoSteps /\ ~lk.th[c].inio
    /\ lk' = [lk EXCEPT !.th[c].inio = TRUE]
    /\ UNCHANGED besideLk

\* the syscall returns (an ignored error included)
LkIoEnd(c) ==
    /\ Instr(c) \in IoSteps /\ lk.th[c].inio
    /\ lk' = Advance(lk, c)
    /\ UNCHANGED besideLk

\* the syscall fails and `?` returns the error
LkIoFails(c) ==
    /\ Instr(c) \in {"fs", "pty"} /\ lk.th[c].inio
    /\ lk' = Finish(lk, c, IF Instr(c) = "fs" THEN "io_error" ELSE "terminal_error")
    /\ UNCHANGED besideLk

LockStep ==
    \/ \E t \in LockIds, pty \in BOOLEAN : LkLoad(t, pty)
    \/ \E c \in Callers :
        \/ \E t \in LockIds :
              \E op \in {"list_sessions", "get_session", "create_session",
                         "write_to_session", "resize_session", "close_session",
                         "mark_session_stopped", "restart_session",
                         "switch_session_agent", "get_history"} : LkCall(c, op, t)
        \/ LkRead(c) \/ LkWrite(c) \/ LkUnlock(c)
        \/ LkGet(c) \/ LkPtyCheck(c) \/ LkEdit(c)
        \/ LkIoBegin(c) \/ LkIoEnd(c) \/ LkIoFails(c)

SpecLock == Init /\ [][LockStep]_vars

\* ------------------------- close, restart and switch beside blocked readers
\* thread::JoinHandle::join on reader k: returns once the thread has ended
JoinReader(k) == IF k = 0 THEN TRUE ELSE readers[k].pc = "done"

\* drop(entry.reader_handle) / drop(old_handle): the JoinHandle is dropped,
\* which detaches the thread and waits for nothing
DropReaderHandle(k) == TRUE

\* close_session after the entry is removed: the handle is dropped, then the
\* persistence is marked ended
CloseDropAndMark(c) ==
    /\ ops[c].op = "close" /\ ops[c].pc = "mark"
    /\ DropReaderHandle(ops[c].ent.reader_handle)
    /\ CloseMark(c)

\* the reader spawned last for the session a restart or switch is working on
OldReader(c) ==
    IF ops[c].tid \in DOMAIN sessions THEN sessions[ops[c].tid].inc ELSE 0

\* restart_session / switch_session_agent between the phases: the old handle
\* is dropped, then phase 2 runs
RestartDropAndPhase2(c) ==
    /\ IsRestart(c) /\ ops[c].pc = "phase2"
    /\ DropReaderHandle(OldReader(c))
    /\ (RestartPhase2(c) \/ RestartPhase2Fails(c))

\* what a call in flight does next
ContinueCall(c) ==
    \/ CreateInsert(c) \/ CreateEmit(c)
    \/ CloseDropAndMark(c) \/ CloseRmdir(c)
    \/ RestartDropAndPhase2(c)

StartCall(c) ==
    \E t \in TermIds :
        \/ CreateInvalid(c, t) \/ CreateSpawnFails(c, t) \/ CreateSession(c, t)
        \/ CloseNotFound(c, t) \/ CloseSession(c, t)
        \/ MarkStoppedNotFound(c, t) \/ MarkSessionStopped(c, t)
        \/ \E cl \in {"", "c2"} :
            \/ RestartNotFound(c, t, cl) \/ RestartPhase1(c, t, cl)

\* The session-manager calls of one run while every reader thread stays
\* blocked in read (the PTYs are quiet and stay open).
NextCancel == Recovery \/ \E c \in Callers : StartCall(c) \/ ContinueCall(c)

\* A call in flight runs on a runtime worker and is not starved: the locks
\* it needs are held by other calls for finitely many steps only.
SpecCancel ==
    Init /\ [][NextCancel]_vars /\ \A c \in Callers : WF_vars(ContinueCall(c))

\* ----------------------------------- set_shell_override, runtime settings
MaxCfgCalls == 3        \* set_shell_override / get / spawn calls in one run
MaxCfgRestarts == 1     \* daemon restarts

\* the values of Option<String> a client sends: None and two shells
Shells == {"none", "/bin/zsh", "/bin/fish"}

\* load_runtime_settings: the file's shell_override, the default (None) when
\* the file is missing or does not parse
LoadRuntimeSettings(file) == IF file = "absent" THEN "none" ELSE file

\* save_runtime_settings: atomic_write of runtime.json; written: whether the
\* write succeeded
SaveRuntimeSettings(file, shell, written) == IF written THEN shell ELSE file

\* the response of the SetShellOverride arm: the result of the save is
\* discarded (`let _ =`) and DaemonResponse::Ok returned
ResponseIgnoringSave(written) == "ok"

CfgCanCall(c) == cfg.th[c].pc = "idle" /\ cfg.n < MaxCfgCalls

\* SetShellOverride, first block: *shell_override.write() = shell
SetShellOverride(c, shell) ==
    /\ CfgCanCall(c)
    /\ cfg' = [cfg EXCEPT !.n = @ + 1, !.shell_override = shell,
                          !.th[c] = [pc |-> "runtime", shell |-> shell]]
    /\ UNCHANGED besideCfg

\* SetShellOverride, second block, under runtime.write(): the config is set
\* and saved, then the response built
SetRuntimeAndSave(c, written) ==
    /\ cfg.th[c].pc = "runtime"
    /\ cfg' = [cfg EXCEPT
                 !.runtime = cfg.th[c].shell,
                 !.file = SaveRuntimeSettings(@, cfg.th[c].shell, written),
                 !.th[c] = [pc |-> "idle", shell |-> "none"],
                 !.last = [shell |-> cfg.th[c].shell,
                           result |-> ResponseIgnoringSave(written),
                           saved |-> written]]
    /\ UNCHANGED besideCfg

\* GetRuntimeConfig: runtime.read().clone()
GetRuntimeConfig(c) ==
    /\ CfgCanCall(c)
    /\ cfg' = [cfg EXCEPT !.n = @ + 1, !.got = cfg.runtime]
    /\ UNCHANGED besideCfg

\* spawn_pty: ShellConfig::detect(self.shell_override.read().clone())
CfgSpawnPty(c) ==
    /\ CfgCanCall(c)
    /\ cfg' = [cfg EXCEPT !.n = @ + 1, !.spawned_with = cfg.shell_override]
    /\ UNCHANGED besideCfg

\* the daemon exits (no set in flight) and is started again: run_daemon loads
\* the settings into both copies
CfgRestart ==
    /\ cfg.restarts < MaxCfgRestarts
    /\ \A c \in Callers : cfg.th[c].pc = "idle"
    /\ cfg' = [cfg EXCEPT !.restarts = @ + 1,
                          !.shell_override = LoadRuntimeSettings(cfg.file),
                          !.runtime = LoadRuntimeSettings(cfg.file),
                          !.got = "", !.spawned_with = ""]
    /\ UNCHANGED besideCfg

CfgStep ==
    \/ \E c \in Callers :
          \/ \E shell \in Shells : SetShellOverride(c, shell)
          \/ \E written \in BOOLEAN : SetRuntimeAndSave(c, written)
          \/ GetRuntimeConfig(c)
          \/ CfgSpawnPty(c)
    \/ CfgRestart

SpecCfg == Init /\ [][CfgStep]_vars

\* ------------------------------------------------------ shutdown request
MaxHaltEvents == 2      \* events forwarded to the connection
SockCap == 1            \* lines the socket's send buffer takes unread

\* the write task has a line to write and the socket takes it
WriteTaskReady == halt.written < Len(halt.out) /\ halt.sock < SockCap

\* the event task forwards an event into the out channel
HaltEvent ==
    /\ ~halt.exited
    /\ Len(SelectSeq(halt.out, LAMBDA l : l = "event")) < MaxHaltEvents
    /\ halt' = [halt EXCEPT !.out = Append(@, "event")]
    /\ UNCHANGED besideHalt

\* the read loop reads a Shutdown request; handle_request spawns the task
\* that sleeps 100 ms and exits, and returns DaemonResponse::Ok
HaltRequest ==
    /\ ~halt.exited /\ halt.pc = "idle"
    /\ halt' = [halt EXCEPT !.pc = "respond", !.timer = "sleeping"]
    /\ UNCHANGED besideHalt

\* the read loop serialises the response and sends it into the out channel
HaltRespond ==
    /\ ~halt.exited /\ halt.pc = "respond"
    /\ halt' = [halt EXCEPT !.pc = "done", !.out = Append(@, "ok")]
    /\ UNCHANGED besideHalt

\* the write task writes the next line of the out channel to the socket;
\* write_all waits while the send buffer is full
HaltWrite ==
    /\ ~halt.exited /\ WriteTaskReady
    /\ halt' = [halt EXCEPT !.written = @ + 1, !.sock = @ + 1]
    /\ UNCHANGED besideHalt

\* the client reads a line from its end of the socket
HaltPeerReads ==
    /\ halt.sock > 0
    /\ halt' = [halt EXCEPT !.sock = @ - 1]
    /\ UNCHANGED besideHalt

\* the sleep ends and process::exit(0) runs. The 100 ms are taken to outlast
\* every step that is ready to run: the read loop has sent the response and
\* the write task is idle or waiting for the socket.
HaltExit ==
    /\ ~halt.exited /\ halt.timer = "sleeping"
    /\ halt.pc = "done" /\ ~WriteTaskReady
    /\ halt' = [halt EXCEPT !.exited = TRUE, !.timer = "off"]
    /\ UNCHANGED besideHalt

HaltStep ==
    \/ HaltEvent
    \/ HaltRequest
    \/ HaltRespond
    \/ HaltWrite
    \/ HaltPeerReads
    \/ HaltExit

SpecHalt == Init /\ [][HaltStep]_vars

\* the tokio runtime runs every task that is ready
LiveHalt ==
    /\ SpecHalt
    /\ WF_vars(HaltRespond) /\ WF_vars(HaltWrite) /\ WF_vars(HaltExit)

\* ------------------------------------------ write_to_pty and resize_pty
MaxPtyCalls == 3        \* write_to_session / resize_session calls on the PTY
MaxWriteLen == 2        \* bytes of one write_to_session call

PtySizes == {1, 2}

PtyIdle(c) == handle.th[c].pc = "idle" /\ handle.n < MaxPtyCalls

\* a mutex whose lock() returns although another caller is inside
LockIgnoringHolder(holders) == TRUE

\* parking_lot::Mutex::lock returns when no caller is inside
MutexFree(holders) == holders = {}

\* write_to_session has cloned the handle: write_to_pty is entered with data
\* of len bytes
PtyWriteCall(c, len) ==
    /\ PtyIdle(c)
    /\ handle' = [handle EXCEPT !.n = @ + 1,
                    !.th[c] = [op |-> "write", pc |-> "lock", id |-> handle.n + 1,
                               left |-> len, size |-> 0]]
    /\ UNCHANGED besideHandle

\* pty_handle.writer.lock()
PtyWriterLock(c) ==
    /\ handle.th[c].op = "write" /\ handle.th[c].pc = "lock"
    /\ MutexFree(handle.writer)
    /\ handle' = [handle EXCEPT !.writer = @ \cup {c}, !.th[c].pc = "write_all"]
    /\ UNCHANGED besideHandle

\* write_all: one write(2) takes the next byte (a write may be partial)
PtyWriteByte(c) ==
    /\ handle.th[c].pc = "write_all" /\ handle.th[c].left > 0
    /\ handle' = [handle EXCEPT !.tape = Append(@, handle.th[c].id),
                                !.th[c].left = @ - 1]
    /\ UNCHANGED besideHandle

\* write_all or flush has returned (failed: with an error, the rest of the
\* data unwritten): the guard is dropped and the call returns
PtyWriteDone(c, failed) ==
    /\ handle.th[c].pc = "write_all"
    /\ failed \/ handle.th[c].left = 0
    /\ handle' = [handle EXCEPT !.writer = @ \ {c},
                                !.th[c] = [@ EXCEPT !.pc = "idle", !.left = 0]]
    /\ UNCHANGED besideHandle

\* resize_session has cloned the handle: resize_pty is entered
PtyResizeCall(c, size) ==
    /\ PtyIdle(c)
    /\ handle' = [handle EXCEPT !.n = @ + 1,
                    !.th[c] = [op |-> "resize", pc |-> "lock", id |-> handle.n + 1,
                               left |-> 0, size |-> size]]
    /\ UNCHANGED besideHandle

\* pty_handle.master.lock()
PtyMasterLock(c) ==
    /\ handle.th[c].op = "resize" /\ handle.th[c].pc = "lock"
    /\ MutexFree(handle.master)
    /\ handle' = [handle EXCEPT !.master = @ \cup {c}, !.th[c].pc = "resize"]
    /\ UNCHANGED besideHandle

\* master.resize(..), then the guard is dropped and the call returns
PtyResize(c) ==
    /\ handle.th[c].pc = "resize"
    /\ handle' = [handle EXCEPT !.size = handle.th[c].size, !.master = @ \ {c},
                                !.th[c].pc = "idle",
                                !.overlapped = @ \/ handle.writer # {}]
    /\ UNCHANGED besideHandle

PtyStep ==
    \E c \in Callers :
        \/ \E len \in 1..MaxWriteLen : PtyWriteCall(c, len)
        \/ PtyWriterLock(c)
        \/ PtyWriteByte(c)
        \/ \E failed \in BOOLEAN : PtyWriteDone(c, failed)
        \/ \E size \in PtySizes : PtyResizeCall(c, size)
        \/ PtyMasterLock(c)
        \/ PtyResize(c)

SpecPty == Init /\ [][PtyStep]_vars

\* ------------------------------------------------ port and pid files
\* what fs::write leaves at a path between open(O_CREAT | O_TRUNC) and the
\* write: an empty file
Truncated == "empty"

\* the daemon directory as the previous run left it: with or without its
\* port and pid files
DiscPrevious(files) ==
    /\ disc.pc = "prev"
    /\ disc' = [disc EXCEPT !.pc = "bind",
                            !.port = IF files THEN "old" ELSE "absent",
                            !.pid = IF files THEN "old" ELSE "absent"]
    /\ UNCHANGED besideDisc

\* TcpListener::bind("127.0.0.1:0") and local_addr
DiscBind ==
    /\ disc.pc = "bind"
    /\ disc' = [disc EXCEPT !.pc = "pid_tmp", !.bound = TRUE]
    /\ UNCHANGED besideDisc

\* write_pid, atomic_write: fs::write(pid.tmp)
DiscPidTmp ==
    /\ disc.pc = "pid_tmp"
    /\ disc' = [disc EXCEPT !.pc = "pid_rename", !.pidtmp = TRUE]
    /\ UNCHANGED besideDisc

\* write_pid, atomic_write: rename(pid.tmp, pid)
DiscPidRename ==
    /\ disc.pc = "pid_rename"
    /\ disc' = [disc EXCEPT !.pc = "port_open", !.pidtmp = FALSE, !.pid = "new"]
    /\ UNCHANGED besideDisc

\* write_pid fails: a warning is logged and serve_ipc goes on
DiscPidFails ==
    /\ disc.pc \in {"pid_tmp", "pid_rename"}
    /\ disc' = [disc EXCEPT !.pc = "port_open"]
    /\ UNCHANGED besideDisc

\* write_port_file, fs::write: the file is opened, created or truncated
DiscPortOpen ==
    /\ disc.pc = "port_open"
    /\ disc' = [disc EXCEPT !.pc = "port_write", !.port = Truncated]
    /\ UNCHANGED besideDisc

\* write_port_file, fs::write: the port number is written
DiscPortWrite ==
    /\ disc.pc = "port_write"
    /\ disc' = [disc EXCEPT !.pc = "accept", !.port = "new"]
    /\ UNCHANGED besideDisc

\* write_port_file fails: serve_ipc returns the error, the listener is
\* dropped
DiscPortFails ==
    /\ disc.pc \in {"port_open", "port_write"}
    /\ disc' = [disc EXCEPT !.pc = "failed", !.bound = FALSE]
    /\ UNCHANGED besideDisc

\* a client reads the two files
ClientReadsFiles ==
    /\ disc.pc # "prev"
    /\ disc' = [disc EXCEPT !.seen_port = disc.port, !.seen_pid = disc.pid,
                            !.connected = ""]
    /\ UNCHANGED besideDisc

\* the client connects to the port it read: this run's port is open while
\* the listener is bound
ClientConnects ==
    /\ disc.seen_port = "new" /\ disc.connected = ""
    /\ disc' = [disc EXCEPT !.connected = IF disc.bound THEN "ok" ELSE "refused"]
    /\ UNCHANGED besideDisc

DiscStep ==
    \/ \E files \in BOOLEAN : DiscPrevious(files)
    \/ DiscBind
    \/ DiscPidTmp \/ DiscPidRename \/ DiscPidFails
    \/ DiscPortOpen \/ DiscPortWrite \/ DiscPortFails
    \/ ClientReadsFiles \/ ClientConnects

SpecDisc == Init /\ [][DiscStep]_vars

\* -------------------------------- write_to_session and resize_session
MaxTermCalls == 2       \* write_to_session / resize_session calls
MaxTermEdits == 2       \* stop, restart and close calls beside them

NewCols == {100, 120}

\* the lookup that lets every registered session through, with or without
\* a PTY
LookupIgnoringPty(R, t) ==
    IF t \notin DOMAIN R THEN "terminal_not_found" ELSE "ok"

\* the block under sessions.read(): get(..).ok_or(TerminalNotFound), then
\* entry.pty.as_ref().ok_or(TerminalError)
Lookup(R, t) ==
    IF t \notin DOMAIN R THEN "terminal_not_found"
    ELSE IF R[t].pty = 0 THEN "terminal_error"
    ELSE "ok"

\* load_from_disk inserts a recovered session, respawned or stopped
TermLoad(t, running) ==
    /\ term.n = 0 /\ term.edits = 0 /\ t \notin DOMAIN term.reg
    /\ term' = [term EXCEPT
                  !.spawned = IF running THEN @ + 1 ELSE @,
                  !.reg = Put(@, t, [pty |-> IF running THEN term.spawned + 1 ELSE 0,
                                     cols |-> InitialCols]),
                  !.meta = Put(@, t, InitialCols)]
    /\ UNCHANGED besideTerm

CanEdit(t) == term.edits < MaxTermEdits /\ t \in DOMAIN term.reg

\* mark_session_stopped, or phase 1 of restart_session / switch_session_agent:
\* entry.pty = None
TermDropPty(t) ==
    /\ CanEdit(t) /\ term.reg[t].pty # 0
    /\ term' = [term EXCEPT !.edits = @ + 1, !.reg[t].pty = 0]
    /\ UNCHANGED besideTerm

\* phase 2 of restart_session / switch_session_agent: entry.pty = Some(pty)
TermSpawnPty(t) ==
    /\ CanEdit(t) /\ term.reg[t].pty = 0
    /\ term' = [term EXCEPT !.edits = @ + 1, !.spawned = @ + 1,
                            !.reg[t].pty = term.spawned + 1]
    /\ UNCHANGED besideTerm

\* close_session: the entry is removed
TermClose(t) ==
    /\ CanEdit(t)
    /\ term' = [term EXCEPT !.edits = @ + 1, !.reg = Remove(@, t)]
    /\ UNCHANGED besideTerm

\* the result of the lookup block for caller c's call of op on t: the error
\* returned, or the handle cloned
AfterLookup(c, op, t, cols) ==
    LET r == Lookup(term.reg, t)
        call == [NoTermCall EXCEPT !.op = op, !.tid = t, !.cols = cols,
                                   !.id = term.n + 1]
    IN [term EXCEPT
          !.n = @ + 1,
          !.th[c] = IF r = "ok"
                    THEN [call EXCEPT !.pc = "pty",
                                      !.h = IF t \in DOMAIN term.reg
                                            THEN term.reg[t].pty ELSE 0]
                    ELSE [call EXCEPT !.result = r]]

TermIdle(c) == term.th[c].pc = "idle" /\ term.n < MaxTermCalls

\* write_to_session, the block under the read lock
WriteToSession(c, t) ==
    /\ TermIdle(c)
    /\ term' = AfterLookup(c, "write_to_session", t, 0)
    /\ UNCHANGED besideTerm

\* write_to_session: write_to_pty on the handle cloned; failed: the write
\* returns an error
WriteToPty(c, failed) ==
    /\ term.th[c].op = "write_to_session" /\ term.th[c].pc = "pty"
    /\ term' = [term EXCEPT
                  !.tape = IF failed THEN @ ELSE Append(@, <<term.th[c].id, term.th[c].h>>),
                  !.th[c] = [@ EXCEPT !.pc = "idle",
                                      !.result = IF failed THEN "io_error" ELSE "ok"]]
    /\ UNCHANGED besideTerm

\* resize_session, the block under the read lock
ResizeSession(c, t, cols) ==
    /\ TermIdle(c)
    /\ term' = AfterLookup(c, "resize_session", t, cols)
    /\ UNCHANGED besideTerm

\* resize_session: resize_pty on the handle cloned; failed: `?` returns
ResizePty(c, failed) ==
    /\ term.th[c].op = "resize_session" /\ term.th[c].pc = "pty"
    /\ term' = [term EXCEPT
                  !.sized = IF failed THEN @
                            ELSE Append(@, <<term.th[c].id, term.th[c].h, term.th[c].cols>>),
                  !.th[c] = IF failed
                            THEN [@ EXCEPT !.pc = "idle", !.result = "io_error"]
                            ELSE [@ EXCEPT !.pc = "edit"]]
    /\ UNCHANGED besideTerm

\* resize_session: under the write lock the entry's cols / rows are set when
\* the entry is still there, then persistence.meta's, and Ok returned
ResizeEdit(c) ==
    /\ term.th[c].pc = "edit"
    /\ LET t == term.th[c].tid
       IN term' = [term EXCEPT
                     !.reg = IF t \in DOMAIN @
                             THEN [@ EXCEPT ![t].cols = term.th[c].cols] ELSE @,
                     !.meta = [@ EXCEPT ![t] = term.th[c].cols],
                     !.th[c] = [@ EXCEPT !.pc = "idle", !.result = "ok"]]
    /\ UNCHANGED besideTerm

TermStep ==
    \/ \E t \in LockIds :
          \/ \E running \in BOOLEAN : TermLoad(t, running)
          \/ TermDropPty(t) \/ TermSpawnPty(t) \/ TermClose(t)
    \/ \E c \in Callers :
          \/ \E t \in LockIds :
                \/ WriteToSession(c, t)
                \/ \E cols \in NewCols : ResizeSession(c, t, cols)
          \/ \E failed \in BOOLEAN : WriteToPty(c, failed) \/ ResizePty(c, failed)
          \/ ResizeEdit(c)

SpecTerm == Init /\ [][TermStep]_vars

\* ------------------------------ hook calls for any terminal id
\* the terminal_id of a hook call is any string: an id of the sessions
\* directory, or one no session has
HookIds == TermIds \cup {"t9"}

HookStepAnyId ==
    \E h \in 1..MaxHookCalls :
        \/ \E t \in HookIds, e \in HookEvents : HandleAgentEvent(h, t, e)
        \/ HookAgentStatus(h) \/ HookNoStatus(h)
        \/ HookRespond(h)

NextAnyId == Recovery \/ HookStepAnyId \/ MirrorStep

SpecAnyId == Init /\ [][NextAnyId]_vars

\* ------------------------------------ resize_session and the saved size
MaxDimsCalls == 3       \* resize_session, restart_session and flush calls
MaxDimsCrashes == 1     \* daemon kills followed by recovery

DimsIdle(c) == dims.th[c].pc = "idle" /\ dims.n < MaxDimsCalls

\* resize_session: the handle is cloned under the read lock and resize_pty
\* sets the size of the PTY
DimsResizePty(c, cols) ==
    /\ DimsIdle(c)
    /\ dims' = [dims EXCEPT !.n = @ + 1, !.pty = cols,
                            !.th[c] = [pc |-> "entry", cols |-> cols]]
    /\ UNCHANGED besideDims

\* resize_session: entry.cols / rows are set under the write lock
DimsSetEntry(c) ==
    /\ dims.th[c].pc = "entry"
    /\ dims' = [dims EXCEPT !.entry = dims.th[c].cols, !.th[c].pc = "meta"]
    /\ UNCHANGED besideDims

\* resize_session: persistence.meta.cols / rows are set under the
\* persistence mutex and Ok is returned; save_meta is not called
DimsSetMeta(c) ==
    /\ dims.th[c].pc = "meta"
    /\ dims' = [dims EXCEPT !.mem = dims.th[c].cols, !.last = dims.th[c].cols,
                            !.th[c] = [pc |-> "idle", cols |-> 0]]
    /\ UNCHANGED besideDims

\* save_meta, called by write_output after FlushEveryBytes of output and by
\* mark_ended: persistence.meta is written to meta.json
DimsSaveMeta ==
    /\ dims.n < MaxDimsCalls
    /\ dims' = [dims EXCEPT !.n = @ + 1, !.file = dims.mem]
    /\ UNCHANGED besideDims

\* restart_session: the new meta takes entry.cols, reset saves it, and
\* spawn_pty opens the PTY at the cols phase 1 read
DimsRestart ==
    /\ dims.n < MaxDimsCalls
    /\ dims' = [dims EXCEPT !.n = @ + 1, !.mem = dims.entry, !.file = dims.entry,
                            !.pty = dims.entry]
    /\ UNCHANGED besideDims

\* the daemon is killed and started again: load_from_disk builds the entry
\* from meta.json and respawns the PTY at meta.cols
DimsCrashRecover ==
    /\ dims.crashes < MaxDimsCrashes
    /\ dims' = [dims EXCEPT !.crashes = @ + 1,
                            !.entry = dims.file, !.mem = dims.file, !.pty = dims.file,
                            !.th = [c \in Callers |-> [pc |-> "idle", cols |-> 0]]]
    /\ UNCHANGED besideDims

DimsStep ==
    \/ \E c \in Callers :
          \/ \E cols \in NewCols : DimsResizePty(c, cols)
          \/ DimsSetEntry(c)
          \/ DimsSetMeta(c)
    \/ DimsSaveMeta
    \/ DimsRestart
    \/ DimsCrashRecover

SpecDims == Init /\ [][DimsStep]_vars

\* ------------------------------------------ the environment of a PTY
\* Variable names are sequences of characters, so that starts_with is
\* computed; values are tuples naming where the value comes from.
PATH == <<"P", "A", "T", "H">>
HOME == <<"H", "O", "M", "E">>
TERM == <<"T", "E", "R", "M">>
SHELL == <<"S", "H", "E", "L", "L">>
LC_ALL == <<"L", "C", "_", "A", "L", "L">>
LC_TIME == <<"L", "C", "_", "T", "I", "M", "E">>
LCX == <<"L", "C", "X">>
ADA_HOME == <<"A", "D", "A", "_", "H", "O", "M", "E">>
ADA_BIN_DIR == <<"A", "D", "A", "_", "B", "I", "N", "_", "D", "I", "R">>
ADA_TERMINAL_ID == <<"A", "D", "A", "_", "T", "E", "R", "M", "I", "N", "A", "L", "_", "I", "D">>
ADA_PROJECT_ID == <<"A", "D", "A", "_", "P", "R", "O", "J", "E", "C", "T", "_", "I", "D">>
ADA_NOTIFICATION_PORT ==
    <<"A", "D", "A", "_", "N", "O", "T", "I", "F", "I", "C", "A", "T", "I", "O", "N", "_", "P", "O", "R", "T">>
ADA_ORIG_ZDOTDIR ==
    <<"A", "D", "A", "_", "O", "R", "I", "G", "_", "Z", "D", "O", "T", "D", "I", "R">>
ADA_DEBUG == <<"A", "D", "A", "_", "D", "E", "B", "U", "G">>
ZDOTDIR == <<"Z", "D", "O", "T", "D", "I", "R">>
AWS_SECRET == <<"A", "W", "S", "_", "S", "E", "C", "R", "E", "T">>

\* ALLOWED_ENV_VARS, the names of it the model's environments use
ALLOWED_ENV_VARS == {PATH, HOME, SHELL, TERM, LC_ALL}

ALLOWED_PREFIXES == {<<"A", "D", "A", "_">>, <<"L", "C", "_">>}

\* str::starts_with
StartsWith(key, prefix) ==
    Len(key) >= Len(prefix) /\ SubSeq(key, 1, Len(prefix)) = prefix

\* the test of build_terminal_env's loop over std::env::vars()
Included(key) ==
    key \in ALLOWED_ENV_VARS \/ \E prefix \in ALLOWED_PREFIXES : StartsWith(key, prefix)

\* HashMap::insert / CommandBuilder::env of every pair of over
Overlay(base, over) ==
    [k \in DOMAIN base \cup DOMAIN over |->
        IF k \in DOMAIN over THEN over[k] ELSE base[k]]

\* the value the daemon's environment gives a variable
InheritedValue(key) == <<"inherited", key>>

EnvOf(keys) == [k \in keys |-> InheritedValue(k)]

\* the seven variables inserted for every shell
MandatoryEnv(shell) ==
    [k \in {ADA_HOME, ADA_BIN_DIR, ADA_TERMINAL_ID, ADA_PROJECT_ID,
            ADA_NOTIFICATION_PORT, TERM, SHELL} |->
        CASE k = TERM -> <<"xterm-256color">>
          [] k = SHELL -> <<"shell.path", shell>>
          [] OTHER -> <<"ada", k>>]

\* the two variables inserted for zsh: the original ZDOTDIR (the inherited
\* one, the home directory without it) and the wrapper's
ZshEnv(inherited, shell) ==
    IF shell = "zsh"
    THEN [k \in {ADA_ORIG_ZDOTDIR, ZDOTDIR} |->
            IF k = ZDOTDIR THEN <<"wrapper_dir/zsh">>
            ELSE IF ZDOTDIR \in DOMAIN inherited THEN inherited[ZDOTDIR]
            ELSE <<"home_dir">>]
    ELSE <<>>

\* PATH: ada_bin_dir before the PATH the map holds, alone without one
PathEnv(env) ==
    [k \in {PATH} |->
        IF PATH \in DOMAIN env THEN <<"ada_bin_dir", ":">> \o env[PATH]
        ELSE <<"ada_bin_dir">>]

\* build_terminal_env
BuildTerminalEnv(inherited, shell) ==
    LET filtered == [k \in {x \in DOMAIN inherited : Included(x)} |-> inherited[k]]
        withZsh == Overlay(filtered, ZshEnv(inherited, shell))
        withMandatory == Overlay(withZsh, MandatoryEnv(shell))
    IN Overlay(withMandatory, PathEnv(withMandatory))

\* CommandBuilder::new: the builder starts from the environment of the
\* daemon process (spawn_pty never calls env_clear)
CommandBuilderNew(inherited) == inherited

\* spawn_pty: cmd.env of every pair of build_terminal_env's map, then of
\* terminal.command.env
ChildEnv(inherited, shell, command_env) ==
    Overlay(Overlay(CommandBuilderNew(inherited), BuildTerminalEnv(inherited, shell)),
            command_env)

InheritableKeys == {PATH, HOME, LC_TIME, LCX, ADA_HOME, ADA_DEBUG, ZDOTDIR, AWS_SECRET}

CommandEnvKeys == {PATH, TERM, AWS_SECRET}

ShellNames == {"zsh", "bash", "fish"}

\* spawn_pty builds the environment and spawns the command (one spawn a run)
SpawnWithEnv(keys, shell, ckeys) ==
    /\ penv.shell = ""
    /\ penv' = [inherited |-> EnvOf(keys), shell |-> shell,
                command_env |-> [k \in ckeys |-> <<"command", k>>],
                built |-> BuildTerminalEnv(EnvOf(keys), shell),
                child |-> ChildEnv(EnvOf(keys), shell, [k \in ckeys |-> <<"command", k>>])]
    /\ UNCHANGED besidePenv

EnvStep ==
    \E keys \in SUBSET InheritableKeys, shell \in ShellNames,
       ckeys \in SUBSET CommandEnvKeys : SpawnWithEnv(keys, shell, ckeys)

SpecEnv == Init /\ [][EnvStep]_vars

\* ----------------------------- registry lock and persistence mutex
MaxOrderOps == 3        \* operations started in one run

\* The lock steps of each operation in program order. "W+" / "R+" take
\* sessions.write() / sessions.read(), "W-" / "R-" drop the guard, "P+" /
\* "P-" lock and unlock the session's persistence mutex.
create_session_locks == <<"W+", "W-">>

close_session_locks == <<"W+", "W-", "P+", "P-">>

mark_session_stopped_locks == <<"W+", "P+", "P-", "W-">>

\* restart_session and switch_session_agent: reset under the phase-1 guard,
\* then the phase-2 guard
restart_session_locks == <<"W+", "P+", "P-", "W-", "W+", "W-">>

\* the temporary persistence guard lives to the end of the statement that
\* reads the scrollback
get_history_locks == <<"R+", "P+", "P-", "R-">>

resize_session_locks == <<"R+", "R-", "W+", "W-", "P+", "P-">>

write_to_session_locks == <<"R+", "R-">>

\* the reader loop: write_output under the persistence mutex
reader_output_locks == <<"P+", "P-">>

\* an exit path that locks the persistence before the registry
reader_exit_locks_reversed == <<"P+", "W+", "W-", "P-">>

\* the reader's exit path: the registry's write guard, mark_ended under the
\* persistence mutex inside it
reader_exit_locks == <<"W+", "P+", "P-", "W-">>

OrderOps ==
    [create_session |-> create_session_locks, close_session |-> close_session_locks,
     mark_session_stopped |-> mark_session_stopped_locks,
     restart_session |-> restart_session_locks, get_history |-> get_history_locks,
     resize_session |-> resize_session_locks,
     write_to_session |-> write_to_session_locks,
     reader_output |-> reader_output_locks, reader_exit |-> reader_exit_locks]

CallerOps ==
    {"create_session", "close_session", "mark_session_stopped", "restart_session",
     "get_history", "resize_session", "write_to_session"}

ReaderOps == {"reader_output", "reader_exit"}

\* the lock step thread t is at ("" when it has no operation in flight)
OrderInstr(t) ==
    IF ord.th[t].pc = 0 THEN "" ELSE OrderOps[ord.th[t].op][ord.th[t].pc]

\* thread t has done its step: the next one, or the operation is over
OrderAdvance(O, t) ==
    IF O.th[t].pc = Len(OrderOps[O.th[t].op]) THEN [O EXCEPT !.th[t].pc = 0]
    ELSE [O EXCEPT !.th[t].pc = @ + 1]

\* thread t starts operation op
OrderStart(t, op) ==
    /\ ord.th[t].pc = 0 /\ ord.n < MaxOrderOps
    /\ op \in (IF t = "reader" THEN ReaderOps ELSE CallerOps)
    /\ ord' = [ord EXCEPT !.n = @ + 1, !.th[t] = [op |-> op, pc |-> 1]]
    /\ UNCHANGED besideOrd

\* sessions.write(): granted when no guard is held
OrderWrite(t) ==
    /\ OrderInstr(t) = "W+"
    /\ ord.w = "" /\ ord.r = {}
    /\ ord' = OrderAdvance([ord EXCEPT !.w = t], t)
    /\ UNCHANGED besideOrd

\* sessions.read(): granted when no write guard is held
OrderRead(t) ==
    /\ OrderInstr(t) = "R+"
    /\ ord.w = ""
    /\ ord' = OrderAdvance([ord EXCEPT !.r = @ \cup {t}], t)
    /\ UNCHANGED besideOrd

\* persistence.lock(): granted when the mutex is free
OrderLockPersistence(t) ==
    /\ OrderInstr(t) = "P+"
    /\ ord.p = ""
    /\ ord' = OrderAdvance([ord EXCEPT !.p = t], t)
    /\ UNCHANGED besideOrd

\* a guard is dropped
OrderUnlock(t) ==
    /\ OrderInstr(t) \in {"W-", "R-", "P-"}
    /\ ord' = OrderAdvance(
                 CASE OrderInstr(t) = "W-" -> [ord EXCEPT !.w = ""]
                   [] OrderInstr(t) = "R-" -> [ord EXCEPT !.r = @ \ {t}]
                   [] OTHER -> [ord EXCEPT !.p = ""], t)
    /\ UNCHANGED besideOrd

OrderThread(t) ==
    \/ OrderWrite(t) \/ OrderRead(t) \/ OrderLockPersistence(t) \/ OrderUnlock(t)

OrderStep ==
    \E t \in Threads :
        \/ \E op \in CallerOps \cup ReaderOps : OrderStart(t, op)
        \/ OrderWrite(t) \/ OrderRead(t) \/ OrderLockPersistence(t) \/ OrderUnlock(t)

SpecOrder == Init /\ [][OrderStep]_vars

\* every thread that can take a step eventually takes one
LiveOrder == SpecOrder /\ \A t \in Threads : WF_vars(OrderThread(t))

\* ------------------------------------------------------ read operations
\* get_session, list_sessions and get_history read the registry under its
\* read lock; get_history reads scrollback.bin from the disk.
GetSession(t) ==
    IF t \in DOMAIN sessions THEN sessions[t].status ELSE "terminal_not_found"

ListSessions == DOMAIN sessions

GetHistory(t) ==
    IF t \in DOMAIN sessions
    THEN ReadScrollback(inodes, disk[pers[sessions[t].persistence].dir])
    ELSE <<>>

\* ================================================================ claims
\* reader thread k has been spawned and has not ended
Live(k) == k \in 1..Len(readers) /\ readers[k].pc # "done"

Returned(c, op, result) ==
    ops[c].op = op /\ ops[c].pc = "done" /\ ops[c].result = result

\* C1: every session whose status is starting or running holds a PTY handle
\* and the reader thread of that PTY is live, in every reachable state
\* (between the lock phases of restart / switch, after create, after
\* recovery).
C1_ActiveHoldsPtyAndReader ==
    \A t \in DOMAIN sessions :
        sessions[t].status \in {"starting", "running"}
            => sessions[t].pty # 0 /\ Live(sessions[t].pty)

\* C1, the case after create_session and recovery alone: a session that is
\* running (no restart or switch in progress) holds a PTY whose reader is live.
C1_RunningHoldsLiveReader ==
    \A t \in DOMAIN sessions :
        sessions[t].status = "running"
            => sessions[t].pty # 0 /\ Live(sessions[t].pty)

\* C2: a session whose status is stopped holds no PTY handle and none of the
\* reader threads spawned for it is live.
C2_StoppedHoldsNeither ==
    \A t \in DOMAIN sessions :
        sessions[t].status = "stopped"
            => /\ sessions[t].pty = 0
               /\ ~Live(sessions[t].inc)

\* C2, the half about the PTY handle alone: a stopped session holds no PTY.
C2_StoppedHoldsNoPty ==
    \A t \in DOMAIN sessions : sessions[t].status = "stopped" => sessions[t].pty = 0

\* reader k was spawned for the session now registered under its terminal
\* id (it writes to the same persistence) and a later restart or switch has
\* replaced it
Previous(k) ==
    LET t == readers[k].tid
    IN /\ t \in DOMAIN sessions
       /\ sessions[t].persistence = readers[k].pers
       /\ sessions[t].inc > k

\* C3: once restart_session / switch_session_agent has returned ok, the exit
\* of the previous reader thread leaves the session as it is (status, PTY
\* handle), does not mark the persistence ended and sends no event.
C3_PreviousReaderExitHarmless ==
    [][\A k \in 1..Len(readers) :
          LET t == readers[k].tid
          IN (/\ readers[k].pc = "exit" /\ readers'[k].pc = "done"
              /\ Previous(k)
              /\ sessions[t].status = "running")
             => /\ sessions' = sessions
                /\ bus' = bus
                /\ pers'[readers[k].pers].meta = pers[readers[k].pers].meta]_vars

\* C4: once the reader thread of a created or respawned session has run to
\* its end (its PTY reached EOF or a read error), the session is not left
\* running with that PTY, whichever of the thread and the insertion of the
\* entry came first.
C4_EndedReaderLeavesStopped ==
    \A t \in DOMAIN sessions :
        \A k \in 1..Len(readers) :
            (sessions[t].inc = k /\ readers[k].pc = "done")
                => ~(sessions[t].status = "running" /\ sessions[t].pty = k)

\* caller c issues close_session in this step
CloseStarts(c) ==
    /\ ops[c].pc \in {"idle", "done"}
    /\ ops'[c] # ops[c]
    /\ ops'[c].op = "close"

\* C5: close_session removes the record of a registered id and then returns
\* ok; on an id that is not registered it returns terminal_not_found (so does
\* a second close_session); an id that is not registered is reported
\* terminal_not_found by get_session and is not in list_sessions, and it is
\* registered again only by the insertion of a create_session.
C5_ClosedSessionIsGone ==
    [][/\ \A c \in Callers :
            CloseStarts(c) =>
                IF ops'[c].tid \in DOMAIN sessions
                THEN ops'[c].tid \notin DOMAIN sessions' /\ ops'[c].pc = "mark"
                ELSE /\ ops'[c].pc = "done"
                     /\ ops'[c].result = "terminal_not_found"
                     /\ sessions' = sessions
       /\ \A c \in Callers :
            (ops'[c] # ops[c] /\ ops'[c].op = "close" /\ ops'[c].result = "ok")
                => ops[c].op = "close" /\ ops[c].pc = "rmdir"
       /\ \A t \in TermIds :
            (Serving /\ t \notin DOMAIN sessions /\ t \in DOMAIN sessions')
                => \E c \in Callers :
                      /\ ops[c].op = "create" /\ ops[c].tid = t
                      /\ ops[c].pc = "insert" /\ ops'[c].pc = "emit"
       /\ \A t \in TermIds :
            t \notin DOMAIN sessions'
                => GetSession(t)' = "terminal_not_found" /\ t \notin ListSessions'
      ]_vars

\* C5's case: a close_session has returned ok, a second one for the same id
\* terminal_not_found, and get_session does not find the id.
C5_SecondCloseNotFound ==
    \E c, d \in Callers :
        /\ Returned(c, "close", "ok")
        /\ Returned(d, "close", "terminal_not_found")
        /\ ops[c].tid = ops[d].tid
        /\ GetSession(ops[c].tid) = "terminal_not_found"
        /\ ops[c].tid \notin ListSessions

\* C6: after close_session has returned ok the directory of the session does
\* not exist, whatever the session's reader thread did meanwhile (no
\* create, restart or switch has been called).
C6_ClosedSessionLeavesNoDirectory ==
    \A c \in Callers :
        (/\ Returned(c, "close", "ok")
         /\ \A d \in Callers : ops[d].op \notin {"create", "restart", "switch"})
            => ~disk[ops[c].tid].exists

\* C7: of two create_session calls with the same id (the only calls made),
\* one fails.
C7_OneCreateFails ==
    \A c, d \in Callers :
        (/\ c # d /\ calls = 2
         /\ ops[c].op = "create" /\ ops[c].pc = "done"
         /\ ops[d].op = "create" /\ ops[d].pc = "done"
         /\ ops[c].tid = ops[d].tid)
            => ~(ops[c].result = "ok" /\ ops[d].result = "ok")

\* C9: of the TerminalOutput events of one session (its readers write to one
\* persistence), none that carries output of an earlier PTY follows one that
\* carries output of a later PTY.
C9_OldOutputNotAfterNew ==
    \A i, j \in 1..Len(bus) :
        (/\ i < j
         /\ bus[i].type = "terminal_output" /\ bus[j].type = "terminal_output"
         /\ bus[i].terminal_id = bus[j].terminal_id
         /\ readers[bus[i].src].pers = readers[bus[j].src].pers)
            => bus[i].src <= bus[j].src

\* C10: after restart_session has returned ok (and no create_session was
\* called), get_history holds no byte read from a PTY earlier than the
\* session's present one.
C10_HistoryHoldsNoPreRestartBytes ==
    \A c \in Callers :
        (/\ Returned(c, "restart", "ok")
         /\ ops[c].tid \in DOMAIN sessions
         /\ \A d \in Callers : ops[d].op # "create")
            => LET h == GetHistory(ops[c].tid)
               IN \A i \in 1..Len(h) :
                    h[i].src = 0 \/ h[i].src >= sessions[ops[c].tid].inc

\* ---------------------------------------------------------------- hooks
HookEventsOf(h) ==
    {i \in 1..Len(bus) : bus[i].type = "hook_event" /\ bus[i].src = h}

AgentStatusesOf(h) ==
    {i \in 1..Len(bus) : bus[i].type = "agent_status" /\ bus[i].src = h}

\* what the hook contract asks of a call that has been answered
HookContract(h) ==
    LET ev == hooks[h].event
        want == IF ev = "Start" THEN "working"
                ELSE IF ev = "Stop" THEN "idle"
                ELSE IF ev = "Permission" THEN "permission" ELSE ""
    IN /\ hooks[h].response = "200 ok"
       /\ Cardinality(HookEventsOf(h)) = 1
       /\ \A i \in HookEventsOf(h) :
            bus[i].event = ev /\ bus[i].terminal_id = hooks[h].terminal_id
       /\ IF ev \in {"Start", "Stop", "Permission"}
          THEN /\ Cardinality(AgentStatusesOf(h)) = 1
               /\ \A j \in AgentStatusesOf(h) :
                    /\ bus[j].status = want
                    /\ bus[j].terminal_id = hooks[h].terminal_id
                    /\ \A i \in HookEventsOf(h) : i < j
          ELSE AgentStatusesOf(h) = {}

\* C8 as stated: every call of the hook endpoint that has been answered was
\* answered 200 ok, sent exactly one HookEvent and, for Start / Stop /
\* Permission, after it exactly one AgentStatus (working / idle /
\* permission), for any other event none.
C8_EveryHookCallEmits ==
    \A h \in 1..MaxHookCalls : hooks[h].pc = "done" => HookContract(h)

\* C8 amended: the same for every call whose query carries terminal_id and
\* event (the calls the handler runs for); no call sends more than one
\* HookEvent or AgentStatus at any time.
C8_HandledHookCallEmits ==
    \A h \in 1..MaxHookCalls :
        /\ Cardinality(HookEventsOf(h)) <= 1
        /\ Cardinality(AgentStatusesOf(h)) <= 1
        /\ (hooks[h].pc = "done" /\ hooks[h].event # "") => HookContract(h)

\* C8's case: a Start call and a call with an unknown event have both been
\* answered, the AgentStatus of the first is on the bus.
C8_StartAndUnknownAnswered ==
    \E h, g \in 1..MaxHookCalls :
        /\ hooks[h].pc = "done" /\ hooks[h].event = "Start"
        /\ hooks[g].pc = "done" /\ hooks[g].event = "Notification"
        /\ AgentStatusesOf(h) # {} /\ AgentStatusesOf(g) = {}

\* C11: while a session is registered, get_history holds the data of every
\* TerminalOutput event sent so far for its present PTY (the reader writes
\* to the session's persistence).
C11_HistoryHoldsEmittedOutput ==
    \A t \in DOMAIN sessions :
        \A i \in 1..Len(bus) :
            (/\ bus[i].type = "terminal_output" /\ bus[i].terminal_id = t
             /\ bus[i].src = sessions[t].inc
             /\ readers[bus[i].src].pers = sessions[t].persistence)
                => \E j \in 1..Len(GetHistory(t)) :
                      /\ GetHistory(t)[j].src = bus[i].src
                      /\ GetHistory(t)[j].seq = bus[i].seq
                      /\ GetHistory(t)[j].len = bus[i].len

\* C13: a create_session that failed in spawn_pty (the only call made, on an
\* id that is not registered) leaves no meta.json that recovery would load;
\* a restart or switch that failed does not leave the session starting with
\* no PTY.
C13_FailedSpawnLeavesNothing ==
    \A c \in Callers :
        /\ (/\ Returned(c, "create", "terminal_error") /\ calls = 1
            /\ ops[c].tid \notin DOMAIN sessions)
              => disk[ops[c].tid].meta = <<>>
        /\ (/\ ops[c].op \in {"restart", "switch"} /\ ops[c].pc = "done"
            /\ ops[c].result = "terminal_error" /\ calls = 1
            /\ ops[c].tid \in DOMAIN sessions)
              => ~(sessions[ops[c].tid].status = "starting"
                   /\ sessions[ops[c].tid].pty = 0)

\* the status of the last AgentStatus event for t sent since the mirror task
\* subscribed, "" if there is none
LastAgentStatus(t) ==
    LET I == {i \in mirror.start..Len(bus) :
                 bus[i].type = "agent_status" /\ bus[i].terminal_id = t}
    IN IF I = {} THEN ""
       ELSE bus[CHOOSE i \in I : \A j \in I : j <= i].status

\* nothing more will be sent and the mirror task has nothing left to take
Quiescent ==
    /\ Serving
    /\ \A h \in DOMAIN hooks : hooks[h].pc = "done"
    /\ mirror.pc = "ended" \/ (mirror.pc = "recv" /\ Behind = 0)

\* C12: once the bus is quiescent, the agent_status of every registered
\* session equals the status of the last AgentStatus event sent for its id
\* while the mirror task was subscribed, also after the task has lagged.
C12_RecordHoldsLastAgentStatus ==
    Quiescent =>
        \A t \in DOMAIN sessions :
            LastAgentStatus(t) # "" => sessions[t].agent_status = LastAgentStatus(t)

\* C12 for the runs in which the mirror task never lagged.
C12_RecordHoldsLastAgentStatusUnlagged ==
    (Quiescent /\ mirror.pc = "recv") =>
        \A t \in DOMAIN sessions :
            LastAgentStatus(t) # "" => sessions[t].agent_status = LastAgentStatus(t)

\* a session whose record was changed by the mirror task
C12_MirroredStatus ==
    /\ Quiescent /\ mirror.pc = "recv"
    /\ \E t \in DOMAIN sessions :
           LastAgentStatus(t) = "permission" /\ sessions[t].agent_status = "permission"

\* the command that returns in this step
AppReturns(cmd, id) ==
    /\ app'.calls = app.calls + 1
    /\ app'.last.cmd = cmd /\ app'.last.id = id

WasMain(id) == id \in DOMAIN app.terminals /\ app.terminals[id].is_main

ReturnsNow(c, op, t, result) ==
    /\ calls' = calls + 1
    /\ ops'[c] = Done(op, t, result)
    /\ \A d \in Callers \ {c} : ops'[d] = ops[d]
    /\ ops'[c] = ops[c] =>
          \A d \in Callers \ {c} : ops[d].pc # "done" \/ ops[d] = ops[c]

\* C15: when mark_session_stopped(t) returns ok, the record is still in the
\* registry with status stopped and no PTY, the persisted meta.json has
\* ended_at set, the directory and scrollback.bin exist and a stopped status
\* event for t was sent last; when it returns terminal_not_found, registry,
\* disk and bus are as before.
C15_MarkStoppedKeepsSession ==
    [][\A c \in Callers : \A t \in TermIds :
        /\ ReturnsNow(c, "mark_stopped", t, "ok") =>
              /\ t \in DOMAIN sessions'
              /\ sessions'[t].status = "stopped" /\ sessions'[t].pty = 0
              /\ disk'[t].exists /\ disk'[t].scroll # 0
              /\ disk'[t].meta # <<>> /\ disk'[t].meta[1].ended_at = TRUE
              /\ Len(bus') = Len(bus) + 1
              /\ bus'[Len(bus')] = TerminalStatus(t, "stopped", 0)
        /\ ReturnsNow(c, "mark_stopped", t, "terminal_not_found") =>
              /\ t \notin DOMAIN sessions
              /\ UNCHANGED <<sessions, disk, inodes, bus>>
      ]_vars

ScrollbackOf(F, D) == IF D.exists /\ D.scroll # 0 THEN F[D.scroll] ELSE <<>>

\* C17: the on-disk scrollback of every session is at most
\* MAX_SCROLLBACK_BYTES long (the file grows in write_output only, so this is
\* the claim after every return of write_output).
C17_ScrollbackAtMostMax ==
    \A t \in DOMAIN disk :
        RunsLen(ScrollbackOf(inodes, disk[t])) <= MAX_SCROLLBACK_BYTES

\* C17 in the runs of a daemon that was never killed.
C17_ScrollbackAtMostMaxNoCrash ==
    crashes = 0 =>
        \A t \in DOMAIN disk :
            RunsLen(ScrollbackOf(inodes, disk[t])) <= MAX_SCROLLBACK_BYTES

\* the content of meta.json is one complete serialised SessionMeta
Complete(file) ==
    /\ Len(file) = 2
    /\ file[1].by # 0
    /\ file = MetaJson(file[1].by, file[1].n)

\* C18: meta.json is absent or holds the complete content of one save, at
\* every point, also after the process was killed inside a save and while
\* two objects save into the same directory.
C18_MetaJsonNeverTorn ==
    saves.meta # 0 => Complete(saves.files[saves.meta])

\* C18 as long as only one object has saved into the directory.
C18_MetaJsonNeverTornOneSaver ==
    (\E i \in Savers : saves.procs[i].n = 0) =>
        (saves.meta # 0 => Complete(saves.files[saves.meta]))

\* new holds old, or the tail of old that a rotation keeps, at its head
KeepsFlushed(old, new) ==
    \E n \in {0, IF RunsLen(old) > KeepAfterRotate
                 THEN RunsLen(old) - KeepAfterRotate ELSE 0} :
        TakeBytes(new, RunsLen(old) - n) = DropBytes(old, n)

\* C19: when the daemon is killed and started again, the scrollback.bin that
\* get_history will read still holds the bytes that were in the file before
\* (all of them, or the tail a rotation keeps), and once recovery is over
\* every directory with a meta.json is in list_sessions.
C19_CrashKeepsSessionsAndHistory ==
    [][/\ crashes' = crashes + 1 =>
            \A t \in DOMAIN disk :
                KeepsFlushed(ScrollbackOf(inodes, disk[t]),
                             ScrollbackOf(inodes', disk'[t]))
       /\ (crashes' > 0 /\ Serving') =>
            \A t \in DOMAIN disk' :
                disk'[t].meta # <<>> => t \in ListSessions'
      ]_vars

\* the Responses among the lines sent into the out channel, in order
ResponsesSent == SelectSeq(conn.out, LAMBDA l : l.type = "response")

\* what the handled requests ask for: one Response each, with the request's
\* id, an error Response for a request that failed, in the order read
ResponsesDue ==
    [i \in 1..Len(conn.handled) |->
        [type |-> "response", id |-> conn.handled[i].id,
         error |-> conn.handled[i].fails]]

InBusOrder(s) ==
    /\ \A j \in 1..(Len(s.got) - 1) : s.got[j] < s.got[j + 1]
    /\ \A n \in s.resumed..(s.pos - 1) : \E j \in 1..Len(s.got) : s.got[j] = n
    /\ s.lagged = 0 => s.got = [j \in 1..(s.pos - s.start) |-> s.start + j - 1]

\* a send that is due can be made whatever the subscribers have taken
SendCompletes ==
    \A h \in 1..MaxHookCalls :
        hooks[h].pc = "map" => ENABLED (HookAgentStatus(h) \/ HookNoStatus(h))

\* forwarder i receives a lag signal in this step
ForwarderLags(i) ==
    /\ i \in 1..Len(subs)
    /\ subs'[i].lagged = subs[i].lagged + 1

\* a lag signal leaves forwarder i subscribed, at the oldest event retained,
\* with what it had forwarded
ForwarderResumes(i) ==
    /\ subs[i].pos < OldestRetained
    /\ subs'[i].pc = "recv"
    /\ subs'[i].pos = OldestRetained
    /\ subs'[i].got = subs[i].got

\* the mirror task's recv returns the lag signal in this step
MirrorLags == mirror.pc = "recv" /\ Behind > BusCapacity /\ mirror' # mirror

\* C21: the bus is lossy per subscriber and never blocks producers. A
\* subscriber (a connection's forwarder, the mirror task) that falls more than
\* the capacity behind gets a lag signal, loses only older events, stays
\* subscribed and receives the later events; a send completes whatever the
\* subscribers do and changes no subscriber; every forwarder that has not
\* lagged has every event since its subscription, in bus order.
C21_LaggingSubscriberStaysSubscribed ==
    /\ [](SendCompletes /\ \A i \in 1..Len(subs) : InBusOrder(subs[i]))
    /\ [][/\ \A i \in 1..MaxConns : ForwarderLags(i) => ForwarderResumes(i)
          /\ MirrorLags => mirror'.pc = "recv"
          /\ bus' # bus => (subs' = subs /\ mirror' = mirror)
         ]_vars

\* C21 for the forwarders of the IPC connections alone.
C21_LaggingForwarderStaysSubscribed ==
    /\ [](SendCompletes /\ \A i \in 1..Len(subs) : InBusOrder(subs[i]))
    /\ [][/\ \A i \in 1..MaxConns : ForwarderLags(i) => ForwarderResumes(i)
          /\ bus' # bus => (subs' = subs /\ mirror' = mirror)
         ]_vars

\* one forwarder has lagged, lost the first event and forwarded the last,
\* while the other has forwarded all four
C21_LaggedBesideComplete ==
    \E i, j \in 1..Len(subs) :
        /\ subs[i].pc = "recv" /\ subs[i].lagged = 1
        /\ subs[i].start = 1 /\ subs[i].got # <<>> /\ subs[i].got[1] > 1
        /\ subs[i].got[Len(subs[i].got)] = 4
        /\ subs[j].lagged = 0 /\ subs[j].got = <<1, 2, 3, 4>>

\* C22: no session-manager operation holds the registry lock, read or write,
\* while it is inside a PTY syscall or file-system I/O (restart_session and
\* switch_session_agent spawning the new PTY included), so that no list, get
\* or write call waits for the lock behind another call's I/O.
C22_NoIoUnderRegistryLock ==
    \A c \in Callers : lk.th[c].inio => ~Holds(c)

\* C22 for create_session, write_to_session, resize_session, close_session,
\* get_session and list_sessions alone.
C22_NoIoUnderRegistryLockInCreateWriteResizeClose ==
    \A c \in Callers :
        (/\ lk.th[c].inio
         /\ lk.th[c].op \in {"create_session", "write_to_session", "resize_session",
                             "close_session", "get_session", "list_sessions"})
            => ~Holds(c)

\* a write to t2's PTY is in its syscall while another call holds the write
\* guard for an edit
C22_WriteIoBesideEdit ==
    \E c, d \in Callers :
        /\ lk.th[c].op = "write_to_session" /\ lk.th[c].inio /\ ~Holds(c)
        /\ lk.writer = d /\ ~lk.th[d].inio

\* C23: close_session is cancellation, not join: once called it returns,
\* without waiting for the reader thread, also when that thread stays blocked
\* in its PTY read for ever; so do restart_session and switch_session_agent
\* with respect to the previous reader.
C23_CloseAndRestartReturn ==
    \A c \in Callers :
        (ops[c].op \in {"close", "restart", "switch"} /\ ops[c].pc # "done")
            ~> (ops[c].pc = "done")

\* a close and a restart have returned ok while the readers of the closed and
\* of the replaced PTY are still blocked in read
C23_ReturnedBesideBlockedReaders ==
    \E c, d \in Callers :
        /\ Returned(c, "restart", "ok") /\ Returned(d, "close", "ok")
        /\ Len(readers) = 2
        /\ \A k \in 1..2 : readers[k].pc = "read" /\ readers[k].tid = ops[d].tid

\* the status of the last TerminalStatus event sent for t ("" when none was)
LastTerminalStatus(t) ==
    LET I == {i \in 1..Len(bus) :
                 bus[i].type = "terminal_status" /\ bus[i].terminal_id = t}
    IN IF I = {} THEN ""
       ELSE bus[CHOOSE i \in I : \A j \in I : j <= i].status

\* no call is in flight and every reader thread is blocked in read or has
\* ended: no TerminalStatus event is about to be sent
Settled ==
    /\ Serving
    /\ \A c \in Callers : ops[c].pc \in {"idle", "done"}
    /\ \A k \in 1..Len(readers) : readers[k].pc \in {"read", "done"}

\* C24: the TerminalStatus events of one session come in the causal order of
\* the state changes behind them: once everything has settled, the last
\* TerminalStatus event sent for a registered id carries the status its
\* record has (a running event of create_session or restart_session does not
\* follow the stopped event of that incarnation's reader exit).
C24_LastStatusEventIsRecordStatus ==
    Settled =>
        \A t \in DOMAIN sessions :
            LastTerminalStatus(t) # "" => LastTerminalStatus(t) = sessions[t].status

\* C24 for the sessions no restart or switch has failed on: the record is
\* running or stopped.
C24_LastStatusEventIsRecordStatusNotStarting ==
    Settled =>
        \A t \in DOMAIN sessions :
            (LastTerminalStatus(t) # "" /\ sessions[t].status # "starting")
                => LastTerminalStatus(t) = sessions[t].status

\* set_shell_override has returned ok for x, and no other set has started
\* since
AckedOverride(x) ==
    /\ cfg.last.result = "ok" /\ cfg.last.shell = x
    /\ \A c \in Callers : cfg.th[c].pc = "idle"

\* C25: once set_shell_override(x) has returned ok, get_runtime_config
\* returns x (the runtime config holds x), PTYs are spawned with x (the
\* manager's override holds x), and runtime.json holds x so that both hold
\* again after a daemon restart; a set whose save failed has not returned ok.
C25_AckedOverrideIsInForceAndSaved ==
    /\ cfg.last.result = "ok" => cfg.last.saved
    /\ \A x \in Shells :
          AckedOverride(x) =>
              /\ cfg.runtime = x
              /\ cfg.shell_override = x
              /\ LoadRuntimeSettings(cfg.file) = x

\* the position of the shutdown response in the out channel, 0 when it has
\* not been sent
OkIndex ==
    IF \E i \in 1..Len(halt.out) : halt.out[i] = "ok"
    THEN CHOOSE i \in 1..Len(halt.out) : halt.out[i] = "ok"
    ELSE 0

\* C26: on a shutdown request the process exits only after the ok response
\* has been sent into the out channel and written to the socket.
C26_ResponseWrittenBeforeExit ==
    halt.exited => (OkIndex > 0 /\ halt.written >= OkIndex)

\* C26, first part: the process exits only after the response has been sent
\* into the out channel.
C26_ResponseEnqueuedBeforeExit == halt.exited => OkIndex > 0

\* C26, last part: a shutdown request is followed by the exit.
C26_ExitHappens == (halt.timer = "sleeping") ~> halt.exited

\* caller c's switch_session_agent returns ok in this step
SwitchReturnsOk(c) ==
    /\ ops[c].op = "switch" /\ ops[c].pc = "phase2"
    /\ ops'[c].pc = "done" /\ ops'[c].result = "ok"

\* the entry of caller c's session as switch_session_agent leaves it: the
\* client set, agent idle, running on a PTY and a reader spawned by this call
SwitchedEntry(c) ==
    LET e == sessions'[ops[c].tid]
    IN /\ e.client_id = "c2"
       /\ e.agent_status = "idle"
       /\ e.status = "running"
       /\ e.pty = Len(readers') /\ e.reader_handle = e.pty
       /\ Len(readers') = Len(readers) + 1
       /\ readers'[e.pty].pc = "read" /\ ~shutdown'[e.shutdown]

\* the scrollback of caller c's session holds no byte when the call returns
SwitchedScrollbackCleared(c) == GetHistory(ops[c].tid)' = <<>>

\* no create_session is in flight or has returned last for a caller
NoCreateCall == \A d \in Callers : ops[d].op # "create"

\* C27: when switch_session_agent returns ok (and no create_session was
\* called) the session has the client given, agent_status idle, status
\* running on a fresh PTY and reader, and a cleared scrollback; for an
\* unknown id it returns terminal_not_found and changes nothing.
C27_SwitchLeavesFreshSession ==
    [][\A c \in Callers :
          /\ (SwitchReturnsOk(c) /\ NoCreateCall)
                => (SwitchedEntry(c) /\ SwitchedScrollbackCleared(c))
          /\ (ops'[c] # ops[c] /\ ops[c].pc # "phase2" /\ ops'[c].op = "switch"
              /\ ops'[c].result = "terminal_not_found")
                => UNCHANGED <<sessions, readers, shutdown, pers, inodes, disk, bus>>
      ]_vars

\* C27 without the scrollback: the registry entry is as the claim says
C27_SwitchLeavesFreshEntry ==
    [][\A c \in Callers :
          (SwitchReturnsOk(c) /\ NoCreateCall) => SwitchedEntry(c)]_vars

\* the bytes of each call form one block of the tape
Contiguous(tape) ==
    \A i, k \in 1..Len(tape) :
        (i < k /\ tape[i] = tape[k]) => \A j \in i..k : tape[j] = tape[i]

\* C28 as stated: the bytes of each write_to_session call reach the PTY as
\* one contiguous block, and no resize is inside its critical section while
\* a write is inside its own.
C28_WritesContiguousResizeExcluded ==
    /\ Contiguous(handle.tape)
    /\ ~(handle.writer # {} /\ handle.master # {})

\* C28 amended: the bytes of each write_to_session call reach the PTY as one
\* contiguous block, at most one write is inside the writer mutex and at
\* most one resize inside the master mutex.
C28_WritesContiguousPerMutexExclusion ==
    /\ Contiguous(handle.tape)
    /\ Cardinality(handle.writer) <= 1
    /\ Cardinality(handle.master) <= 1

\* two calls have each written two bytes, and a resize ran during a write
C28_TwoWritesAndResizeDuringWrite ==
    /\ handle.overlapped
    /\ \E i, k \in 1..handle.n :
          /\ i # k
          /\ Len(SelectSeq(handle.tape, LAMBDA b : b = i)) = MaxWriteLen
          /\ Len(SelectSeq(handle.tape, LAMBDA b : b = k)) = MaxWriteLen

\* C29: a client reading the port or the pid file during daemon start sees
\* no file, the previous content or the complete new content, and the new
\* port is in the port file only while the listener is bound to it.
C29_DiscoveryFilesWholeAndAfterBind ==
    /\ disc.seen_port \in {"", "absent", "old", "new"}
    /\ disc.seen_pid \in {"", "absent", "old", "new"}
    /\ (disc.port = "new" /\ disc.pc # "failed") => disc.bound

\* C29 for the pid file and the order of bind and publication alone
C29_PidWholeAndPortAfterBind ==
    /\ disc.seen_pid \in {"", "absent", "old", "new"}
    /\ (disc.port = "new" /\ disc.pc # "failed") => disc.bound
    /\ disc.connected = "refused" => disc.pc = "failed"

\* caller c's write_to_session or resize_session call starts in this step
TermCallStarts(c) == term.th[c].pc = "idle" /\ term'.th[c].id = term.n + 1

\* call id has reached no PTY
NothingWrittenBy(id) ==
    /\ \A i \in 1..Len(term.tape) : term.tape[i][1] # id
    /\ \A i \in 1..Len(term.sized) : term.sized[i][1] # id

\* C30: write_to_session and resize_session return terminal_not_found for
\* an id not in the registry and an error for a session without PTY, and
\* then leave the PTYs, the registry and the meta as they were.
C30_NoPtyNoEffect ==
    /\ [][\A c \in Callers : TermCallStarts(c) =>
            LET t == term'.th[c].tid
                absent == t \notin DOMAIN term.reg
                nopty == ~absent /\ term.reg[t].pty = 0
            IN /\ absent => term'.th[c].result = "terminal_not_found"
               /\ nopty => term'.th[c].result = "terminal_error"
               /\ (absent \/ nopty) =>
                     /\ term'.th[c].pc = "idle"
                     /\ term'.reg = term.reg /\ term'.meta = term.meta
                     /\ term'.tape = term.tape /\ term'.sized = term.sized
         ]_vars
    /\ [](\A c \in Callers :
            term.th[c].result \in {"terminal_not_found", "terminal_error"}
                => NothingWrittenBy(term.th[c].id))

\* both errors have been returned: terminal_error by resize_session for a
\* session whose PTY was dropped, terminal_not_found by write_to_session
C30_BothErrorsReturned ==
    /\ \E c \in Callers :
          /\ term.th[c].result = "terminal_error"
          /\ term.th[c].op = "resize_session"
          /\ term.th[c].tid \in DOMAIN term.reg
          /\ term.reg[term.th[c].tid].pty = 0
    /\ \E c \in Callers :
          /\ term.th[c].result = "terminal_not_found"
          /\ term.th[c].op = "write_to_session"
    /\ term.edits > 0

\* the last event sent on the bus
LastSent(b) == b[Len(b)]

\* C31: a hook call for a terminal_id not in the registry still sends its
\* HookEvent (and its AgentStatus when the event is mapped) on the bus, and
\* the mirror task applying an AgentStatus creates no entry and changes no
\* session but the one the event names.
C31_UnknownIdEmitsAndMirrorsNothing ==
    [][/\ \A h \in 1..MaxHookCalls :
            /\ (hooks[h].pc = "none" /\ hooks'[h].pc = "map") =>
                  /\ Len(bus') = Len(bus) + 1
                  /\ LastSent(bus').type = "hook_event"
                  /\ LastSent(bus').terminal_id = hooks'[h].terminal_id
                  /\ LastSent(bus').event = hooks'[h].event
                  /\ sessions' = sessions
            /\ (hooks[h].pc = "map" /\ hooks'[h].pc = "respond"
                /\ hooks[h].event \in {"Start", "Stop", "Permission"}) =>
                  /\ Len(bus') = Len(bus) + 1
                  /\ LastSent(bus').type = "agent_status"
                  /\ LastSent(bus').terminal_id = hooks[h].terminal_id
                  /\ sessions' = sessions
       /\ (mirror.pc = "recv" /\ mirror'.pos = mirror.pos + 1) =>
            /\ DOMAIN sessions' = DOMAIN sessions
            /\ \A t \in DOMAIN sessions :
                  t # bus[mirror.pos].terminal_id => sessions'[t] = sessions[t]
      ]_vars

\* the mirror task has taken an AgentStatus for an id that is not in the
\* registry, while another session is
C31_MirroredUnknownId ==
    /\ DOMAIN sessions # {}
    /\ \E i \in 1..Len(bus) :
          /\ i < mirror.pos /\ i >= mirror.start
          /\ bus[i].type = "agent_status"
          /\ bus[i].terminal_id \notin DOMAIN sessions

\* caller c's restart_session returns ok in this step
RestartReturnsOk(c) ==
    /\ ops[c].op = "restart" /\ ops[c].pc = "phase2"
    /\ ops'[c].pc = "done" /\ ops'[c].result = "ok"

\* caller c's restart_session runs its first phase on t in this step
RestartBegins(c, t) ==
    /\ ops[c].pc \in {"idle", "done"}
    /\ ops'[c].op = "restart" /\ ops'[c].pc = "phase2" /\ ops'[c].tid = t

\* the entry of caller c's session as restart_session leaves it: running on
\* a PTY and a reader spawned by this call, client and agent status as
\* they were
RestartedEntry(c) ==
    LET t == ops[c].tid
        e == sessions'[t]
    IN /\ e.status = "running"
       /\ e.pty = Len(readers') /\ e.reader_handle = e.pty
       /\ Len(readers') = Len(readers) + 1
       /\ readers'[e.pty].pc = "read" /\ ~shutdown'[e.shutdown]
       /\ e.client_id = sessions[t].client_id
       /\ e.agent_status = sessions[t].agent_status

\* meta.json of session t as reset writes it
MetaIsReset(t) ==
    LET D == disk'[pers'[sessions'[t].persistence].dir]
    IN /\ D.exists /\ D.meta # <<>>
       /\ ~D.meta[1].ended_at /\ D.meta[1].scrollback_bytes = 0

\* C32: restart_session (with no create_session called) keeps client_id and
\* agent_status in both phases, and returns ok with the session running on
\* a fresh PTY and reader, meta.json reset (ended_at null, scrollback_bytes
\* 0) and the scrollback empty.
C32_RestartLeavesFreshSession ==
    [][\A c \in Callers :
          /\ \A t \in TermIds : (RestartBegins(c, t) /\ NoCreateCall) =>
                /\ sessions'[t].client_id = sessions[t].client_id
                /\ sessions'[t].agent_status = sessions[t].agent_status
          /\ (RestartReturnsOk(c) /\ NoCreateCall) =>
                /\ RestartedEntry(c)
                /\ MetaIsReset(ops[c].tid)
                /\ GetHistory(ops[c].tid)' = <<>>
      ]_vars

\* C32 without the scrollback and the meta file
C32_RestartLeavesFreshEntry ==
    [][\A c \in Callers :
          /\ \A t \in TermIds : (RestartBegins(c, t) /\ NoCreateCall) =>
                /\ sessions'[t].client_id = sessions[t].client_id
                /\ sessions'[t].agent_status = sessions[t].agent_status
          /\ (RestartReturnsOk(c) /\ NoCreateCall) => RestartedEntry(c)
      ]_vars

\* resize_session has returned ok with cols x and nothing has run since
ResizedTo(x) ==
    /\ dims.last = x /\ x # 0
    /\ \A c \in Callers : dims.th[c].pc = "idle"

\* C33: after resize_session(id, c, r) has returned ok (the only call of the
\* run, no crash yet), the entry has cols = c and meta.json has cols = c, so
\* that recovery after a crash respawns at c.
C33_ResizeIsSaved ==
    \A x \in NewCols :
        (ResizedTo(x) /\ dims.crashes = 0 /\ dims.n = 1) =>
            /\ dims.entry = x
            /\ dims.file = x

\* C33, the parts beside meta.json: the entry and persistence.meta hold c
\* and the PTY has that size
C33_ResizeSetsEntry ==
    \A x \in NewCols :
        (ResizedTo(x) /\ dims.crashes = 0 /\ dims.n = 1) =>
            /\ dims.entry = x /\ dims.mem = x /\ dims.pty = x

\* the value the layers give variable k of environment E: command.env, else
\* PATH, else a mandatory variable, else the zsh pair, else the inherited
\* value
Layered(E, k) ==
    LET inh == penv.inherited
        sh == penv.shell
    IN IF k \in DOMAIN E.cmd THEN E.cmd[k]
       ELSE IF k = PATH
            THEN (IF PATH \in DOMAIN inh
                  THEN <<"ada_bin_dir", ":">> \o inh[PATH] ELSE <<"ada_bin_dir">>)
       ELSE IF k \in DOMAIN MandatoryEnv(sh) THEN MandatoryEnv(sh)[k]
       ELSE IF k \in DOMAIN ZshEnv(inh, sh) THEN ZshEnv(inh, sh)[k]
       ELSE inh[k]

\* environment env is the layered override of the inputs, with command.env
\* cmd on top
IsLayered(env, cmd) ==
    LET inh == penv.inherited
        sh == penv.shell
        named == DOMAIN cmd \cup {PATH} \cup DOMAIN MandatoryEnv(sh)
                    \cup DOMAIN ZshEnv(inh, sh)
    IN /\ DOMAIN env = named \cup {k \in DOMAIN inh : Included(k)}
       /\ \A k \in DOMAIN env : env[k] = Layered([cmd |-> cmd], k)

\* C34: the environment of a spawned PTY holds an inherited variable iff it
\* is in the allowlist or starts with ADA_ or LC_; the mandatory variables
\* override inherited values; PATH is ADA_BIN_DIR before the inherited PATH;
\* command.env overrides everything.
C34_ChildEnvIsLayered ==
    penv.shell # "" => IsLayered(penv.child, penv.command_env)

\* C34 for the map build_terminal_env returns
C34_BuiltEnvIsLayered ==
    penv.shell # "" => IsLayered(penv.built, <<>>)

\* meta.json of session t says the session has not ended
MetaSaysLive(t) ==
    LET D == disk[pers[sessions[t].persistence].dir]
    IN D.exists /\ D.meta # <<>> /\ ~D.meta[1].ended_at

\* C35: every session of the registry whose status is running has
\* ended_at = null in its meta.json (no create_session called).
C35_RunningIsNotEndedOnDisk ==
    \A t \in DOMAIN sessions :
        (sessions[t].status = "running" /\ NoCreateCall) => MetaSaysLive(t)

\* thread t holds the persistence mutex
HoldsPersistence(t) == ord.p = t

\* thread t holds a guard of the registry lock
HoldsRegistry(t) == ord.w = t \/ t \in ord.r

\* C36: locks are taken in one order, the registry lock before the
\* persistence mutex (no thread holding the persistence mutex asks for the
\* registry lock), and every operation that has started completes.
C36_OneLockOrderAndCompletion ==
    /\ [](\A t \in Threads :
            HoldsPersistence(t) => OrderInstr(t) \notin {"W+", "R+"})
    /\ \A t \in Threads : (ord.th[t].pc # 0) ~> (ord.th[t].pc = 0)

\* one thread holds the registry's write guard and waits for the persistence
\* mutex, which the reader thread holds, while a third waits for the registry
C36_WaitsUnderRegistryLock ==
    \E t \in Callers :
        /\ ord.w = t /\ OrderInstr(t) = "P+"
        /\ ord.p = "reader"
        /\ \E u \in Callers \ {t} : OrderInstr(u) \in {"W+", "R+"}

\* both callers' restart_session / switch_session_agent on t have returned ok
BothRestarted(t) ==
    \A c \in Callers :
        /\ ops[c].op \in {"restart", "switch"} /\ ops[c].tid = t
        /\ ops[c].pc = "done" /\ ops[c].result = "ok"

\* the reader threads spawned for terminal t that have not ended and whose
\* shutdown flag is not set
UncancelledReadersOf(t) ==
    {k \in 1..Len(readers) : readers[k].tid = t /\ Live(k) /\ ~shutdown[k]}

\* C37: when the second of two restart_session / switch_session_agent calls
\* on one id returns ok, the session is running with one PTY handle and the
\* only reader thread of that id that is live and not cancelled is the one
\* whose shutdown flag the entry stores.
C37_ConcurrentRestartsLeaveOneReader ==
    [][\A t \in DOMAIN sessions :
          (~BothRestarted(t) /\ BothRestarted(t)') =>
              /\ sessions'[t].status = "running"
              /\ sessions'[t].pty # 0
              /\ UncancelledReadersOf(t)' = {sessions'[t].shutdown}
      ]_vars

\* C37, the entry alone: when the second of the two calls returns, the
\* session is running on the PTY and the flag of that call
C37_LastRestartOwnsEntry ==
    [][\A t \in DOMAIN sessions :
          (~BothRestarted(t) /\ BothRestarted(t)') =>
              /\ sessions'[t].status = "running"
              /\ sessions'[t].pty = Len(readers')
              /\ sessions'[t].shutdown = sessions'[t].pty
              /\ readers'[sessions'[t].pty].pc # "done"
      ]_vars

\* no set_shell_override is in flight
NoSetInFlight == \A c \in Callers : cfg.th[c].pc = "idle"

\* C38: once every set_shell_override call issued has completed, the
\* override the session manager reads for shell detection is the
\* shell_override get_runtime_config reports.
C38_ManagerOverrideIsReportedOverride ==
    NoSetInFlight => cfg.shell_override = cfg.runtime

\* C38, the file: once every call has completed and the save of the last
\* one succeeded, runtime.json holds what get_runtime_config reports
C38_SavedOverrideIsReportedOverride ==
    (NoSetInFlight /\ cfg.last.result = "ok" /\ cfg.last.saved)
        => LoadRuntimeSettings(cfg.file) = cfg.runtime

\* every Response sent into the out channel has been written to the socket
ResponsesWritten(C) ==
    \A i \in 1..Len(C.out) : C.out[i].type = "response" => i <= C.written

\* C39: when the read loop ends at the client's end of file and no write to
\* the client has failed, every Response sent into the out channel has been
\* written to the socket by the time the write task is aborted.
C39_ResponsesWrittenBeforeAbort ==
    [][(~conn.eof /\ conn.eof' /\ conn.open) => ResponsesWritten(conn')]_vars

\* the step of the read loop that takes a line which is not a Request: a
\* line is consumed and no request is in hand afterwards
SkipsLine == conn.cur = <<>> /\ conn'.lines = conn.lines + 1 /\ conn'.cur = <<>>

\* C40: a line that does not parse as a DaemonMessage, and a Response or
\* Event sent by the client, are ignored: nothing is sent into the out
\* channel for them, no request is handled and no session state changes, and
\* the read loop is at next_line again with the write task as it was.
C40_NonRequestLinesIgnored ==
    [][SkipsLine =>
          /\ conn'.out = conn.out
          /\ conn'.handled = conn.handled
          /\ daemon' = daemon
          /\ ~conn'.eof /\ conn'.open = conn.open
      ]_vars

\* two lines that are not requests and one Request have been read on a
\* connection without events: the one line sent and written is the Response
\* to the Request, and the read loop is at next_line
C40_RequestServedAfterSkippedLines ==
    /\ conn.lines = 3 /\ Len(conn.handled) = 1 /\ conn.cur = <<>>
    /\ conn.open /\ ~conn.eof
    /\ conn.events = 0
    /\ conn.out = <<ResponseTo(conn.handled[1])>>
    /\ conn.written = 1

====
